---------------------------- MODULE Spec2Model ----------------------------
(***************************************************************************)
(* Model of the naoload download service.                                  *)
(*                                                                         *)
(* Spec        : the rate-limited download handler of                      *)
(*               src/src/app/api/download/route.ts (lines 273-668): POST,  *)
(*               checkRateLimit, incrementDownloadCount, run by concurrent *)
(*               requests against the shared download_limits table, whose  *)
(*               calls may fail.                                           *)
(* SpecFresh   : Spec started on an empty table.                           *)
(* SpecHealthy : the handler started on an empty table, with a store whose *)
(*               every call succeeds.                                      *)
(* SpecPoll    : downloadAudio (lines 445-529), one step per wait and per  *)
(*               status request; SpecPollFair adds that every wait and     *)
(*               every request ends.                                       *)
(* SpecVideo   : downloadVideo (lines 532-598), one call on one upstream   *)
(*               answer.                                                   *)
(* SpecDetect  : the three detectPlatform functions (route.ts 4-9 and      *)
(*               339-347, src/unnamed/part_003 11-18), one call on one     *)
(*               URL, strings being sequences of characters.               *)
(* SpecRoutes  : one deployment of one of the four revisions of POST       *)
(*               /api/download held by route.ts: the platform-dispatching  *)
(*               handler (25-218), the Cobalt proxy (222-271) and the      *)
(*               all-in-one handler (672-784) answer one request; the      *)
(*               rate-limited handler runs as in Spec on requests with     *)
(*               one kind of body.                                         *)
(* SpecLog     : POST /api/log-download (src/unnamed/part_001), one call.  *)
(* SpecSequential : SpecHealthy with the requests arriving one after the   *)
(*               other.                                                    *)
(* SpecQuota   : the rate-limited handler with downloadVideo as the        *)
(*               adapter of its video requests.                            *)
(* SpecStats   : POST /api/admin/stats                                     *)
(*               (src/src/app/api/admin/stats/route.ts), one call.         *)
(* SpecCooldown : updateRateLimit of the page (src/unnamed/part_003) under *)
(*               an advancing clock.                                       *)
(* SpecPage    : handleDownload of the page, one click.                    *)
(* SpecFallback : the Cobalt proxy in a deployment with several instances. *)
(***************************************************************************)
EXTENDS Integers, Sequences, FiniteSets, TLC

(***************************************************************************)
(* Bounds of the model.                                                    *)
(***************************************************************************)
\* requests received in one behaviour of Spec (store calls may fail)
MaxRequests == 3
\* requests received in one behaviour of SpecHealthy (every store call succeeds)
MaxHealthyRequests == 6

(***************************************************************************)
(* Program constants.                                                      *)
(***************************************************************************)
RATE_LIMIT_VIDEO == 4
RATE_LIMIT_AUDIO == 10
MAX_POLL_ATTEMPTS == 30
POLL_INTERVAL == 2000

\* request slots the server runs concurrently (each is reused by later requests)
Slots == {"s1", "s2"}
\* client addresses as returned by getClientIP
IPs == {"ip1", "ip2"}
\* media kinds of the download_limits table
Kinds == {"video", "audio"}
\* values of the body's type field ("mp3" stands for any value other than
\* "audio" and "video"; an absent field defaults to "video")
TypeInputs == {"video", "audio", "mp3"}
Days == {1, 2}
Keys == [ip : IPs, kind : Kinds, day : Days]

\* the store holds no row for the key
NoRow == -1

Max(a, b) == IF a >= b THEN a ELSE b

RATE_LIMITS(kind) == IF kind = "video" THEN RATE_LIMIT_VIDEO ELSE RATE_LIMIT_AUDIO

\* const downloadType = type === 'audio' ? 'audio' : 'video'
DownloadType(type) == IF type = "audio" THEN "audio" ELSE "video"

Key(ip, kind, day) == [ip |-> ip, kind |-> kind, day |-> day]

\* data?.download_count || 0
CountOf(data) == IF data = NoRow THEN 0 ELSE data

CheckResultOffByOne(data, kind) ==
    [allowed   |-> CountOf(data) <= RATE_LIMITS(kind),
     remaining |-> Max(0, RATE_LIMITS(kind) - CountOf(data))]

\* checkRateLimit when the select succeeded (data is the row's count, or NoRow)
CheckResult(data, kind) ==
    [allowed   |-> CountOf(data) < RATE_LIMITS(kind),
     remaining |-> Max(0, RATE_LIMITS(kind) - CountOf(data))]

FailClosed(kind) == [allowed |-> FALSE, remaining |-> 0]

\* checkRateLimit when the select returned an error or threw: allow on error
FailOpen(kind) == [allowed |-> TRUE, remaining |-> RATE_LIMITS(kind)]

UpsertRowAllKinds(st, k) ==
    [x \in Keys |-> IF x.ip = k.ip /\ x.day = k.day THEN 1 ELSE st[x]]

\* supabase upsert of {..., download_count: 1} with onConflict on the key and
\* ignoreDuplicates: false: the row is inserted, or overwritten by the payload
UpsertRow(st, k) == [st EXCEPT ![k] = 1]

\* supabase update of download_count, filtered on the key: changes the row if
\* there is one
UpdateRow(st, k, v) == IF st[k] = NoRow THEN st ELSE [st EXCEPT ![k] = v]

AfterAdapterAlways(outcome) == "upsert"

\* POST: a result returned by the adapter is followed by
\* incrementDownloadCount; an exception goes to the catch block
AfterAdapter(outcome) == IF outcome = "returned" THEN "upsert" ELSE "done"

VARIABLES
    store,      \* download_limits: key -> download_count, or NoRow
    today,      \* the calendar day new Date() yields
    apiKey,     \* whether process.env.RAPIDAPI_KEY is set
    req,        \* per slot: the request being handled
    last,       \* the response the latest step sent, if it sent one
    started,    \* number of requests received so far
    succ,       \* key -> number of incrementDownloadCount calls that ran to their end
    apc,        \* downloadAudio: where the call stands
    attempt,    \* downloadAudio: the loop variable
    polls,      \* downloadAudio: status requests issued so far
    waited,     \* downloadAudio: milliseconds spent in sleep so far
    result,     \* downloadAudio: what the call returned or threw
    urlPoll,    \* number of the first poll answered with a download_url, 0 if none
    urlSeen,    \* the download_url of that poll
    errPoll,    \* number of the first poll answered with an error field, 0 if none
    inp,        \* the arguments of the call under study, what its environment answers
    out         \* what the call returned, once it has

\* the handler's variables, downloadAudio's, and those of a single call
hvars == <<store, today, apiKey, req, last, started, succ>>
avars == <<apc, attempt, polls, waited, result, urlPoll, urlSeen, errPoll>>
cvars == <<inp, out>>
vars == <<hvars, avars, cvars>>

\* outcomes of one call to the store: data, an error object, an exception
StoreOutcomes == {"ok", "error", "throw"}

IdleReq ==
    [pc |-> "idle", ip |-> "ip1", kind |-> "video",
     read |-> "none", data |-> NoRow, succSeen |-> 0,
     rateLimit |-> [allowed |-> FALSE, remaining |-> 0],
     incDay |-> 0, existing |-> NoRow, returned |-> FALSE]

NoResponse ==
    [http |-> 0, status |-> "none", code |-> "none", remaining |-> -1,
     returned |-> FALSE, wrote |-> 0]

\* NextResponse.json({status: 'error', error: {code}}, {status: http})
ErrorResponse(http, code) ==
    [http |-> http, status |-> "error", code |-> code, remaining |-> -1,
     returned |-> FALSE, wrote |-> 0]

\* POST, lines 651-658: the adapter's result with
\* remaining = rateLimit.remaining - 1, sent with the default status 200
SuccessResponse(r, wrote) ==
    [http |-> 200, status |-> "redirect", code |-> "none",
     remaining |-> r.rateLimit.remaining - 1,
     returned |-> r.returned, wrote |-> wrote]

\* the table at start-up holds rows the handler wrote on earlier runs: none,
\* or ip1's rows of day 1, one download short of each limit
InitStore(seeds) ==
    \E seeded \in seeds :
       store = [k \in Keys |->
                  IF seeded /\ k.ip = "ip1" /\ k.day = 1
                  THEN RATE_LIMITS(k.kind) - 1 ELSE NoRow]

InitRest ==
    /\ today = 1
    /\ apiKey \in BOOLEAN
    /\ req = [s \in Slots |-> IdleReq]
    /\ last = NoResponse
    /\ started = 0
    /\ succ = [k \in Keys |-> 0]

None == "none"

NoResult == [status |-> "none", url |-> None, code |-> "none"]

\* downloadAudio is not running, or has not fetched anything yet
InitAudio(pc) ==
    /\ apc = pc
    /\ attempt = 0
    /\ polls = 0
    /\ waited = 0
    /\ result = NoResult
    /\ urlPoll = 0
    /\ urlSeen = None
    /\ errPoll = 0

\* no single call is under study
NoCall == [fn |-> "none"]
NoOut == [done |-> FALSE]

InitCall == inp = NoCall /\ out = NoOut

Init == InitStore(BOOLEAN) /\ InitRest /\ InitAudio("idle") /\ InitCall

\* the server's clock passes midnight
Midnight ==
    /\ today + 1 \in Days
    /\ today' = today + 1
    /\ last' = NoResponse
    /\ UNCHANGED <<store, apiKey, req, started, succ>>
    /\ UNCHANGED <<avars, cvars>>

\* POST, lines 600-616: the body is parsed, the url and the API key are
\* tested, the client address and the download type are worked out
ReceiveBody(s, max, bodies) ==
    /\ req[s].pc = "idle"
    /\ started < max
    /\ started' = started + 1
    /\ \E body \in bodies :
          \/ /\ body = "unparseable"
             /\ last' = ErrorResponse(500, "exception")
             /\ UNCHANGED req
          \/ /\ body \in {"nourl", "emptyurl"}
             /\ last' = ErrorResponse(400, "Missing URL")
             /\ UNCHANGED req
          \/ /\ body = "url"
             /\ ~apiKey
             /\ last' = ErrorResponse(500, "API key not configured")
             /\ UNCHANGED req
          \/ /\ body = "url"
             /\ apiKey
             /\ \E ip \in IPs, type \in TypeInputs :
                   req' = [req EXCEPT ![s] = [IdleReq EXCEPT
                             !.pc = "check", !.ip = ip,
                             !.kind = DownloadType(type)]]
             /\ last' = NoResponse
    /\ UNCHANGED <<store, today, apiKey, succ>>
    /\ UNCHANGED <<avars, cvars>>

\* checkRateLimit, lines 364-393: one select on the key of today
CheckRateLimitOn(s, outcomes) ==
    /\ req[s].pc = "check"
    /\ LET kind == req[s].kind
           k == Key(req[s].ip, kind, today)
       IN \E outcome \in outcomes :
            req' = [req EXCEPT ![s] = [@ EXCEPT
                      !.pc = "checked",
                      !.read = outcome,
                      !.data = IF outcome = "ok" THEN store[k] ELSE NoRow,
                      !.succSeen = succ[k],
                      !.rateLimit = IF outcome = "ok"
                                    THEN CheckResult(store[k], kind)
                                    ELSE FailOpen(kind)]]
    /\ last' = NoResponse
    /\ UNCHANGED <<store, today, apiKey, started, succ>>
    /\ UNCHANGED <<avars, cvars>>

BranchIgnoresLimit(s) ==
    /\ req[s].pc = "checked"
    /\ req' = [req EXCEPT ![s] = [@ EXCEPT
                 !.pc = "adapter", !.read = "none", !.data = NoRow,
                 !.succSeen = 0]]
    /\ last' = NoResponse
    /\ UNCHANGED <<store, today, apiKey, started, succ>>
    /\ UNCHANGED <<avars, cvars>>

\* POST, lines 617-635: the 429 answer, or the way on to the adapter
Branch(s) ==
    /\ req[s].pc = "checked"
    /\ IF req[s].rateLimit.allowed
       THEN /\ req' = [req EXCEPT ![s] = [@ EXCEPT
                         !.pc = "adapter", !.read = "none", !.data = NoRow,
                         !.succSeen = 0]]
            /\ last' = NoResponse
       ELSE /\ req' = [req EXCEPT ![s] = IdleReq]
            /\ last' = [ErrorResponse(429, "RATE_LIMIT_EXCEEDED") EXCEPT
                          !.remaining = 0]
    /\ UNCHANGED <<store, today, apiKey, started, succ>>
    /\ UNCHANGED <<avars, cvars>>

\* POST, lines 638-646 and 660-667: downloadAudio or downloadVideo returns a
\* result or throws
CallAdapter(s) ==
    /\ req[s].pc = "adapter"
    /\ \E outcome \in {"returned", "threw"} :
          IF AfterAdapter(outcome) = "upsert"
          THEN /\ req' = [req EXCEPT ![s] = [@ EXCEPT
                            !.pc = "upsert",
                            !.returned = (outcome = "returned")]]
               /\ last' = NoResponse
          ELSE /\ req' = [req EXCEPT ![s] = IdleReq]
               /\ last' = ErrorResponse(500, "adapter error")
    /\ UNCHANGED <<store, today, apiKey, started, succ>>
    /\ UNCHANGED <<avars, cvars>>

\* the key incrementDownloadCount works on
IncKey(r) == Key(r.ip, r.kind, r.incDay)

\* incrementDownloadCount returns and POST answers (lines 649-658)
Finish(s, r, wrote) ==
    /\ req' = [req EXCEPT ![s] = IdleReq]
    /\ last' = SuccessResponse(r, wrote)
    /\ succ' = [succ EXCEPT ![IncKey(r)] = @ + 1]

\* incrementDownloadCount, lines 397-417: today is computed and the upsert sent
IncrementUpsertOn(s, outcomes) ==
    /\ req[s].pc = "upsert"
    /\ LET r1 == [req[s] EXCEPT !.incDay = today]
       IN \E outcome \in outcomes :
            \/ /\ outcome = "ok"
               /\ store' = UpsertRow(store, IncKey(r1))
               /\ Finish(s, r1, 1)
            \/ /\ outcome = "error"
               /\ req' = [req EXCEPT ![s] = [r1 EXCEPT !.pc = "select"]]
               /\ last' = NoResponse
               /\ UNCHANGED <<store, succ>>
            \/ /\ outcome = "throw"
               /\ UNCHANGED store
               /\ Finish(s, r1, 0)
    /\ UNCHANGED <<today, apiKey, started>>
    /\ UNCHANGED <<avars, cvars>>

\* incrementDownloadCount, lines 419-427: after a failed upsert the row is read
IncrementSelect(s) ==
    /\ req[s].pc = "select"
    /\ \E outcome \in StoreOutcomes :
         LET existing == IF outcome = "ok" THEN store[IncKey(req[s])] ELSE NoRow
         IN IF existing # NoRow
            THEN /\ req' = [req EXCEPT ![s] = [@ EXCEPT
                              !.pc = "update", !.existing = existing]]
                 /\ last' = NoResponse
                 /\ UNCHANGED succ
            ELSE Finish(s, req[s], 0)
    /\ UNCHANGED <<store, today, apiKey, started>>
    /\ UNCHANGED <<avars, cvars>>

\* incrementDownloadCount, lines 428-441: the row is set to existing + 1
IncrementUpdate(s) ==
    /\ req[s].pc = "update"
    /\ \E outcome \in StoreOutcomes :
         IF outcome = "ok"
         THEN /\ store' = UpdateRow(store, IncKey(req[s]), req[s].existing + 1)
              /\ Finish(s, req[s], 1)
         ELSE /\ UNCHANGED store
              /\ Finish(s, req[s], 0)
    /\ UNCHANGED <<today, apiKey, started>>
    /\ UNCHANGED <<avars, cvars>>

\* request bodies: not JSON; JSON without url; JSON with url: ''; JSON with
\* a url
Bodies == {"unparseable", "nourl", "emptyurl", "url"}

ReceiveUpTo(s, max) == ReceiveBody(s, max, {"unparseable", "nourl", "url"})

Receive(s) == ReceiveUpTo(s, MaxRequests)
CheckRateLimit(s) == CheckRateLimitOn(s, StoreOutcomes)
IncrementUpsert(s) == IncrementUpsertOn(s, StoreOutcomes)

Next ==
    \/ Midnight
    \/ \E s \in Slots : Receive(s)
    \/ \E s \in Slots : CheckRateLimit(s)
    \/ \E s \in Slots : Branch(s)
    \/ \E s \in Slots : CallAdapter(s)
    \/ \E s \in Slots : IncrementUpsert(s)
    \/ \E s \in Slots : IncrementSelect(s)
    \/ \E s \in Slots : IncrementUpdate(s)

Spec == Init /\ [][Next]_vars

(***************************************************************************)
(* The same handler with a store whose every call succeeds, started on an  *)
(* empty table.                                                            *)
(***************************************************************************)
InitHealthy == InitStore({FALSE}) /\ InitRest /\ InitAudio("idle") /\ InitCall

ReceiveHealthy(s) == ReceiveUpTo(s, MaxHealthyRequests)
CheckRateLimitHealthy(s) == CheckRateLimitOn(s, {"ok"})
IncrementUpsertHealthy(s) == IncrementUpsertOn(s, {"ok"})

NextHealthy ==
    \/ Midnight
    \/ \E s \in Slots : ReceiveHealthy(s)
    \/ \E s \in Slots : CheckRateLimitHealthy(s)
    \/ \E s \in Slots : Branch(s)
    \/ \E s \in Slots : CallAdapter(s)
    \/ \E s \in Slots : IncrementUpsertHealthy(s)

SpecHealthy == InitHealthy /\ [][NextHealthy]_vars

(***************************************************************************)
(* The same handler and store, the requests arriving one after the other:  *)
(* a request is received, and the day changes, only while no other request *)
(* is being handled.                                                       *)
(***************************************************************************)
NoneInFlight == \A s \in Slots : req[s].pc = "idle"

MidnightSequential == NoneInFlight /\ Midnight
ReceiveSequential(s) == NoneInFlight /\ ReceiveHealthy(s)

NextSequential ==
    \/ MidnightSequential
    \/ \E s \in Slots : ReceiveSequential(s)
    \/ \E s \in Slots : CheckRateLimitHealthy(s)
    \/ \E s \in Slots : Branch(s)
    \/ \E s \in Slots : CallAdapter(s)
    \/ \E s \in Slots : IncrementUpsertHealthy(s)

SpecSequential == InitHealthy /\ [][NextSequential]_vars

(***************************************************************************)
(* The handler with a store whose calls may fail, started on an empty      *)
(* table.                                                                  *)
(***************************************************************************)
SpecFresh == InitHealthy /\ [][Next]_vars

(***************************************************************************)
(* downloadAudio (lines 445-529): the job is submitted, then its status    *)
(* URL is polled.                                                          *)
(***************************************************************************)

\* download_url values of a status answer: absent, empty, two links
Urls == {None, "", "u1", "u2"}

\* a JavaScript string used as a condition
Truthy(u) == u \notin {None, ""}

\* answers to one status request: fetch rejects; a non-success HTTP status
\* (the body is not read); a body that does not parse; a parsed body
PollAnswers ==
    [kind : {"reject", "notok", "malformed"}, url : {None}, error : {FALSE}]
       \cup [kind : {"json"}, url : Urls, error : BOOLEAN]

PollDecisionErrorFirst(a) ==
    IF a.kind \in {"reject", "malformed"} THEN "exception"
    ELSE IF a.kind = "notok" THEN "continue"
    ELSE IF a.error THEN "throw"
    ELSE IF Truthy(a.url) THEN "return"
    ELSE "continue"

\* the loop body, lines 495-522: what one answer makes the loop do
PollDecision(a) ==
    IF a.kind \in {"reject", "malformed"} THEN "exception"
    ELSE IF a.kind = "notok" THEN "continue"
    ELSE IF Truthy(a.url) THEN "return"
    ELSE IF a.error THEN "throw"
    ELSE "continue"

LoopContinuesInclusive(i) == i <= MAX_POLL_ATTEMPTS

\* the loop condition, line 492
LoopContinues(i) == i < MAX_POLL_ATTEMPTS

Thrown(code) == [status |-> "error", url |-> None, code |-> code]

\* lines 453-491: the job is submitted and the first answer examined
AudioSubmit ==
    /\ apc = "start"
    /\ \E a \in [kind : {"reject", "notok", "malformed"},
                 success : {FALSE}, error : {FALSE}, progress_url : {FALSE}]
                   \cup [kind : {"json"}, success : BOOLEAN, error : BOOLEAN,
                         progress_url : BOOLEAN] :
          IF a.kind \in {"reject", "malformed"}
          THEN apc' = "threw" /\ result' = Thrown("exception")
          ELSE IF a.kind = "notok"
          THEN apc' = "threw" /\ result' = Thrown("Audio API request failed")
          ELSE IF ~a.success \/ a.error
          THEN apc' = "threw" /\ result' = Thrown("failed to initialize")
          ELSE IF a.progress_url
          THEN apc' = "sleep" /\ result' = result
          ELSE apc' = "threw" /\ result' = Thrown("No progress URL")
    /\ UNCHANGED <<attempt, polls, waited, urlPoll, urlSeen, errPoll>>
    /\ UNCHANGED <<hvars, cvars>>

\* line 493: await sleep(POLL_INTERVAL)
AudioSleep ==
    /\ apc = "sleep"
    /\ waited' = waited + POLL_INTERVAL
    /\ apc' = "fetch"
    /\ UNCHANGED <<attempt, polls, result, urlPoll, urlSeen, errPoll>>
    /\ UNCHANGED <<hvars, cvars>>

\* lines 495-525: one status request, its answer, and the loop's next turn
AudioPoll ==
    /\ apc = "fetch"
    /\ polls' = polls + 1
    /\ \E a \in PollAnswers :
          /\ urlPoll' = IF urlPoll = 0 /\ a.kind = "json" /\ Truthy(a.url)
                        THEN polls' ELSE urlPoll
          /\ urlSeen' = IF urlPoll = 0 /\ a.kind = "json" /\ Truthy(a.url)
                        THEN a.url ELSE urlSeen
          /\ errPoll' = IF errPoll = 0 /\ a.kind = "json" /\ a.error
                        THEN polls' ELSE errPoll
          /\ LET d == PollDecision(a)
             IN IF d = "return"
                THEN /\ apc' = "returned"
                     /\ result' = [status |-> "redirect", url |-> a.url,
                                   code |-> "none"]
                     /\ UNCHANGED attempt
                ELSE IF d = "throw"
                THEN /\ apc' = "threw"
                     /\ result' = Thrown("processing failed")
                     /\ UNCHANGED attempt
                ELSE IF d = "exception"
                THEN /\ apc' = "threw"
                     /\ result' = Thrown("exception")
                     /\ UNCHANGED attempt
                ELSE /\ attempt' = attempt + 1
                     /\ IF LoopContinues(attempt')
                        THEN apc' = "sleep" /\ result' = result
                        ELSE apc' = "threw" /\ result' = Thrown("timed out")
    /\ UNCHANGED waited
    /\ UNCHANGED <<hvars, cvars>>

InitPoll == InitStore({FALSE}) /\ InitRest /\ InitAudio("start") /\ InitCall

NextPoll ==
    \/ AudioSubmit
    \/ AudioSleep
    \/ AudioPoll

SpecPoll == InitPoll /\ [][NextPoll]_vars

\* timers fire and every fetch settles
SpecPollFair == SpecPoll /\ WF_vars(NextPoll)

(***************************************************************************)
(* Claims about the rate limiter.                                          *)
(***************************************************************************)

\* the key checkRateLimit read for the request r
CheckKey(r) == Key(r.ip, r.kind, today)

\* the slot s takes this step
Steps(s) == req'[s] # req[s]

\* C1: once 4 video downloads have succeeded for a key (address, video, day),
\* each followed by its incrementDownloadCount, the next checkRateLimit for
\* the key returns allowed = false and remaining = 0 (and POST answers 429).
C1_FifthVideoRefused ==
    \A s \in Slots :
       (req[s].pc = "checked" /\ req[s].kind = "video" /\ req[s].succSeen >= 4)
          => (~req[s].rateLimit.allowed /\ req[s].rateLimit.remaining = 0)

\* C2: the stored download_count of a key never decreases (a missing row
\* counting as 0), whichever branch of incrementDownloadCount is taken.
C2_CountNeverDecreases ==
    [][\A k \in Keys : CountOf(store'[k]) >= CountOf(store[k])]_vars

\* C3: no increment is lost: on a table that started empty, whenever no
\* incrementDownloadCount is in progress the stored count of every key is the
\* number of incrementDownloadCount calls that ran for it.
C3_NoLostUpdate ==
    (\A s \in Slots : req[s].pc \notin {"upsert", "select", "update"})
       => \A k \in Keys : CountOf(store[k]) = succ[k]

\* C4: the number of requests of one address, kind and day that passed
\* checkRateLimit and were answered with a download exceeds the kind's
\* threshold by at most one.
C4_AtMostOneOver ==
    \A k \in Keys : succ[k] <= (IF k.kind = "video" THEN 4 ELSE 10) + 1

\* C5: when the select of checkRateLimit succeeds (a missing row read as
\* count 0), allowed = (count < threshold), threshold 4 for video and 10 for
\* audio, and remaining = max(0, threshold - count).
C5_CheckResult ==
    \A s \in Slots :
       (req[s].pc = "checked" /\ req[s].read = "ok") =>
          LET count == IF req[s].data = NoRow THEN 0 ELSE req[s].data
              limit == IF req[s].kind = "video" THEN 4 ELSE 10
          IN /\ req[s].rateLimit.allowed = (count < limit)
             /\ req[s].rateLimit.remaining =
                   (IF count >= limit THEN 0 ELSE limit - count)

\* C5 witness: one request has read a count at its threshold and is refused
\* while another has read a missing row and is allowed with the full quota
C5_Witness ==
    \E s, u \in Slots :
       /\ req[s].pc = "checked" /\ req[s].read = "ok"
       /\ req[s].data = RATE_LIMITS(req[s].kind)
       /\ ~req[s].rateLimit.allowed /\ req[s].rateLimit.remaining = 0
       /\ req[u].pc = "checked" /\ req[u].read = "ok"
       /\ req[u].data = NoRow
       /\ req[u].rateLimit.allowed

\* C6: the store writes of incrementDownloadCount for one key (address, kind,
\* day) change neither the stored count nor the checkRateLimit outcome of any
\* key that differs from it in kind, day or address.
C6_OtherKeysUntouched ==
    [][\A s \in Slots :
          (Steps(s) /\ req[s].pc \in {"upsert", "select", "update"}) =>
             LET mine == Key(req[s].ip, req[s].kind,
                             IF req[s].pc = "upsert" THEN today ELSE req[s].incDay)
             IN \A k \in Keys \ {mine} :
                   /\ store'[k] = store[k]
                   /\ CheckResult(store'[k], k.kind) = CheckResult(store[k], k.kind)
      ]_vars

\* C6 witness: a download of ip1's video of day 1 has just been recorded, and
\* ip1's audio row of day 1 still holds the count it started with
C6_Witness ==
    /\ last.http = 200 /\ last.wrote = 1
    /\ store[Key("ip1", "video", 1)] = 1
    /\ store[Key("ip1", "audio", 1)] = RATE_LIMIT_AUDIO - 1
    /\ store[Key("ip2", "video", 1)] = NoRow
    /\ store[Key("ip1", "video", 2)] = NoRow

\* C7: the store is written for a request only after its adapter returned a
\* result; a step that answers with an error (missing URL, missing API key,
\* exceeded limit, adapter exception) is a step of a request whose adapter
\* returned nothing, and it leaves every stored counter unchanged, as did
\* every earlier step of that request.
C7_IncrementAfterAdapter ==
    [][/\ \A s \in Slots : (Steps(s) /\ ~req[s].returned) => store' = store
       /\ last'.status = "error" =>
             /\ store' = store
             /\ last'.wrote = 0
             /\ \A s \in Slots : Steps(s) => ~req[s].returned
       /\ last'.wrote > 0 => last'.returned
      ]_vars

\* C7 witness: an adapter has just thrown and its request is answered with
\* 500; the only rows of the table are those earlier, successful downloads wrote
C7_Witness ==
    /\ last.http = 500 /\ last.code = "adapter error"
    /\ \E k \in Keys : succ[k] > 0 /\ store[k] = 1
    /\ \A k \in Keys : store[k] \in {NoRow, 1}

\* C8: when the select of checkRateLimit fails (an error other than no-rows,
\* or an exception), checkRateLimit returns allowed = true with remaining =
\* the kind's threshold, and the request goes on to the adapter.
C8_FailOpen ==
    [][\A s \in Slots :
          /\ (req'[s].pc = "checked" /\ req'[s].read \in {"error", "throw"}) =>
                /\ req'[s].rateLimit.allowed
                /\ req'[s].rateLimit.remaining =
                      (IF req'[s].kind = "video" THEN 4 ELSE 10)
          /\ (req[s].pc = "checked" /\ req[s].read \in {"error", "throw"} /\ Steps(s))
                => (req'[s].pc = "adapter" /\ last'.http # 429)
      ]_vars

\* C8 witness: the select failed for a key whose stored count is at the
\* threshold, and the request is allowed
C8_Witness ==
    \E s \in Slots :
       /\ req[s].pc = "checked" /\ req[s].read \in {"error", "throw"}
       /\ CountOf(store[CheckKey(req[s])]) >= RATE_LIMITS(req[s].kind)
       /\ req[s].rateLimit.allowed

\* C25: a request for which checkRateLimit returned allowed = false is
\* answered with HTTP 429, code RATE_LIMIT_EXCEEDED and remaining 0, its
\* adapter is never called and no counter is written for it; a request reaches
\* the adapter only from an allowing check, and incrementDownloadCount only
\* from its adapter.
C25_RefusedBeforeAdapter ==
    [][\A s \in Slots : Steps(s) =>
          /\ (req[s].pc = "checked" /\ ~req[s].rateLimit.allowed) =>
                /\ last'.http = 429
                /\ last'.code = "RATE_LIMIT_EXCEEDED"
                /\ last'.remaining = 0
                /\ req'[s].pc = "idle"
                /\ store' = store /\ succ' = succ
          /\ req'[s].pc = "checked" => req[s].pc = "check"
          /\ req'[s].pc = "adapter" =>
                (req[s].pc = "checked" /\ req[s].rateLimit.allowed)
          /\ req'[s].pc = "upsert" => req[s].pc = "adapter"
          /\ store' # store => req[s].pc \in {"upsert", "update"}
      ]_vars

\* C25 witness: a request that read a count at its threshold has just been
\* answered with 429, and the row still holds that count
C25_Witness ==
    /\ last.http = 429 /\ last.code = "RATE_LIMIT_EXCEEDED"
    /\ last.remaining = 0
    /\ \E k \in Keys : store[k] = RATE_LIMITS(k.kind)

\* C26: in a sequential run, the remaining value sent with a successful
\* download lies in 0..threshold-1 and is the kind's threshold minus the count
\* the store holds for the request's key once its increment is done.
C26_RemainingMatchesStore ==
    [][\A s \in Slots :
          (Steps(s) /\ last'.http = 200) =>
             LET limit == RATE_LIMITS(req[s].kind)
                 k == Key(req[s].ip, req[s].kind, today)
             IN /\ last'.remaining \in 0 .. (limit - 1)
                /\ last'.remaining = limit - CountOf(store'[k])
      ]_vars

(***************************************************************************)
(* Claims about downloadAudio.                                             *)
(***************************************************************************)

\* downloadAudio has returned or thrown
AudioDone == apc \in {"returned", "threw"}

\* C9: if the status endpoint first answers with a download_url on poll k
\* (1 <= k <= 30) and no earlier poll carried an error field, downloadAudio
\* returns a redirect result with that poll's download_url after exactly k
\* status requests; every status request is preceded by one wait of
\* POLL_INTERVAL.
C9_ReturnsOnFirstUrl ==
    /\ (urlPoll > 0 /\ (errPoll = 0 \/ errPoll >= urlPoll)) =>
          /\ apc = "returned"
          /\ result.status = "redirect"
          /\ result.url = urlSeen
          /\ polls = urlPoll
          /\ urlPoll <= 30
          /\ waited = urlPoll * 2000
    /\ waited = 2000 * (IF apc = "fetch" THEN polls + 1 ELSE polls)

\* C9 witness: the download_url came with the 30th poll, after 29 polls that
\* carried neither a link nor an error, and was returned
C9_Witness ==
    /\ apc = "returned" /\ polls = MAX_POLL_ATTEMPTS /\ urlPoll = MAX_POLL_ATTEMPTS
    /\ result.url = "u2" /\ errPoll = 0
    /\ waited = MAX_POLL_ATTEMPTS * POLL_INTERVAL

-----------------------------------------------------------------------------
\* downloadVideo's choice among the medias the video upstream lists

\* the longest medias list studied
MaxMedias == 3

Qualities == {"1080p", "720p", "360p", "480p"}

\* a listed media: its quality label, its container, and whether it carries
\* a picture and a sound track; the media's url is its place in the list
MediaEntries ==
    {m \in [quality : Qualities, extension : {"mp4", "webm"},
            videoAvailable : BOOLEAN, audioAvailable : BOOLEAN] :
        /\ m.videoAvailable \/ m.audioAvailable
        /\ m.extension = "webm" => (m.videoAvailable /\ m.audioAvailable)}

RECURSIVE SeqsUpTo(_, _)
SeqsUpTo(S, n) ==
    IF n = 0 THEN {<<>>}
    ELSE LET shorter == SeqsUpTo(S, n - 1)
         IN  shorter \cup {Append(q, x) : q \in shorter, x \in S}

\* what the video upstream answers: a failure status, a payload with an error
\* or message field, or a payload with a medias list (possibly empty)
VideoAnswers(n) ==
    {[fn |-> "downloadVideo", answer |-> a, medias |-> <<>>] :
        a \in {"notok", "error"}}
    \cup {[fn |-> "downloadVideo", answer |-> "ok", medias |-> ms] :
            ms \in SeqsUpTo(MediaEntries, n)}

\* qualityOrder[q] || 0
qualityOrder(q) ==
    CASE q = "1080p" -> 3
      [] q = "720p" -> 2
      [] q = "360p" -> 1
      [] OTHER -> 0

\* a filter that keeps every media carrying a picture
mediasWithVideo(medias, n) ==
    SelectSeq([i \in 1 .. n |-> i], LAMBDA i : medias[i].videoAvailable)

\* the filter of mp4Options: the places of the kept medias, in list order
RECURSIVE mp4Options(_, _)
mp4Options(medias, n) ==
    IF n = 0 THEN <<>>
    ELSE LET m == medias[n]
             kept == mp4Options(medias, n - 1)
         IN  IF m.extension = "mp4" /\ m.videoAvailable /\ m.audioAvailable
             THEN Append(kept, n) ELSE kept

\* the comparator turned upside down: lowest quality first
CompareAscending(medias, a, b) ==
    qualityOrder(medias[a].quality) - qualityOrder(medias[b].quality)

\* the comparator handed to sort: positive when b must come before a
Compare(medias, a, b) ==
    qualityOrder(medias[b].quality) - qualityOrder(medias[a].quality)

\* Array.prototype.sort is stable: an element moves left only past those the
\* comparator puts strictly after it
RECURSIVE SortInsert(_, _, _)
SortInsert(medias, s, x) ==
    IF s = <<>> THEN <<x>>
    ELSE LET y == s[Len(s)]
         IN  IF Compare(medias, y, x) > 0
             THEN Append(SortInsert(medias, SubSeq(s, 1, Len(s) - 1), x), y)
             ELSE Append(s, x)

RECURSIVE SortOptions(_, _)
SortOptions(medias, s) ==
    IF s = <<>> THEN <<>>
    ELSE SortInsert(medias,
                    SortOptions(medias, SubSeq(s, 1, Len(s) - 1)),
                    s[Len(s)])

\* what downloadVideo returns or throws; pick is the place of bestOption
VideoThrown(code) == [done |-> TRUE, status |-> "threw", code |-> code, pick |-> 0]

VideoResult(a) ==
    IF a.answer = "notok" THEN VideoThrown("Video API request failed")
    ELSE IF a.answer = "error" THEN VideoThrown("upstream error")
    ELSE IF Len(a.medias) = 0 THEN VideoThrown("No media found for this URL")
    ELSE LET options == mp4Options(a.medias, Len(a.medias))
         IN  IF Len(options) = 0
             THEN VideoThrown("No MP4 download option found")
             ELSE [done |-> TRUE, status |-> "redirect", code |-> "none",
                   pick |-> SortOptions(a.medias, options)[1]]

\* one call of downloadVideo
DownloadVideo ==
    /\ inp.fn = "downloadVideo" /\ ~out.done
    /\ out' = VideoResult(inp)
    /\ UNCHANGED <<inp, hvars, avars>>

InitVideo ==
    /\ InitStore({FALSE}) /\ InitRest /\ InitAudio("idle")
    /\ inp \in VideoAnswers(MaxMedias) /\ out = NoOut

NextVideo == DownloadVideo

SpecVideo == InitVideo /\ [][NextVideo]_vars

(***************************************************************************)
(* The rate-limited handler with downloadVideo as the adapter of its video *)
(* requests: the requests arrive one after the other, and the video        *)
(* upstream gives every one of them the answer inp.                        *)
(***************************************************************************)
MaxQuotaRequests == 2
MaxQuotaMedias == 2

\* the medias of the answers: the filter does not read the quality label
QuotaEntries == {m \in MediaEntries : m.quality = "720p"}

QuotaAnswers(n) ==
    {[fn |-> "downloadVideo", answer |-> a, medias |-> <<>>] :
        a \in {"notok", "error"}}
    \cup {[fn |-> "downloadVideo", answer |-> "ok", medias |-> ms] :
            ms \in SeqsUpTo(QuotaEntries, n)}

QuotaReceive(s) == NoneInFlight /\ ReceiveUpTo(s, MaxQuotaRequests)

\* POST, lines 638-646 and 660-667, type video: downloadVideo's result goes on
\* to incrementDownloadCount, its exception to the catch block
QuotaCallVideo(s) ==
    /\ req[s].pc = "adapter" /\ req[s].kind = "video"
    /\ LET r == VideoResult(inp)
           outcome == IF r.status = "redirect" THEN "returned" ELSE "threw"
       IN /\ out' = r
          /\ IF AfterAdapter(outcome) = "upsert"
             THEN /\ req' = [req EXCEPT ![s] = [@ EXCEPT
                               !.pc = "upsert",
                               !.returned = (outcome = "returned")]]
                  /\ last' = NoResponse
             ELSE /\ req' = [req EXCEPT ![s] = IdleReq]
                  /\ last' = ErrorResponse(500, r.code)
    /\ UNCHANGED <<store, today, apiKey, started, succ>>
    /\ UNCHANGED <<avars, inp>>

\* type audio: downloadAudio returns or throws
QuotaCallAudio(s) == req[s].kind = "audio" /\ CallAdapter(s)

InitQuota ==
    /\ InitStore({FALSE}) /\ InitRest /\ InitAudio("idle")
    /\ inp \in QuotaAnswers(MaxQuotaMedias) /\ out = NoOut

NextQuota ==
    \/ MidnightSequential
    \/ \E s \in Slots : QuotaReceive(s)
    \/ \E s \in Slots : CheckRateLimit(s)
    \/ \E s \in Slots : Branch(s)
    \/ \E s \in Slots : QuotaCallVideo(s)
    \/ \E s \in Slots : QuotaCallAudio(s)
    \/ \E s \in Slots : IncrementUpsert(s)
    \/ \E s \in Slots : IncrementSelect(s)
    \/ \E s \in Slots : IncrementUpdate(s)

SpecQuota == InitQuota /\ [][NextQuota]_vars

\* the places of the medias that are mp4 with both a picture and sound
Complete(medias) ==
    {i \in DOMAIN medias :
        /\ medias[i].extension = "mp4"
        /\ medias[i].videoAvailable /\ medias[i].audioAvailable}

\* C11: whenever the medias list holds at least one mp4 entry with both audio
\* and video, downloadVideo returns a result, the entry it returns is an mp4
\* with both audio and video, and no such entry of the list ranks higher
\* (1080p over 720p over 360p over any other label); an entry lacking audio
\* or video is never the one returned.
C11_BestCompleteMp4 ==
    (inp.fn = "downloadVideo" /\ out.done /\ inp.answer = "ok"
        /\ Complete(inp.medias) # {}) =>
        /\ out.status = "redirect"
        /\ out.pick \in Complete(inp.medias)
        /\ \A j \in Complete(inp.medias) :
              qualityOrder(inp.medias[out.pick].quality)
                  >= qualityOrder(inp.medias[j].quality)

\* C11 witness: 720p with sound, then 1080p with sound, then 1080p without
\* sound; the second is returned
C11_Witness ==
    /\ inp.fn = "downloadVideo" /\ out.done /\ Len(inp.medias) = 3
    /\ inp.medias[1] = [quality |-> "720p", extension |-> "mp4",
                        videoAvailable |-> TRUE, audioAvailable |-> TRUE]
    /\ inp.medias[2] = [quality |-> "1080p", extension |-> "mp4",
                        videoAvailable |-> TRUE, audioAvailable |-> TRUE]
    /\ inp.medias[3] = [quality |-> "1080p", extension |-> "mp4",
                        videoAvailable |-> TRUE, audioAvailable |-> FALSE]
    /\ out.pick = 2

\* C27: downloadVideo returns only an mp4 entry that has both a picture and
\* sound; when the medias list holds no such entry it throws instead of
\* returning another entry, the request is answered with an error, and no
\* counter is written for it: a video counter is written only for a request
\* whose downloadVideo returned such an entry.
C27_NoFallbackNoQuota ==
    [][\A s \in Slots : (Steps(s) /\ req[s].kind = "video") =>
          /\ req[s].pc = "adapter" =>
                /\ out'.done
                /\ out'.status = "redirect" =>
                      out'.pick \in Complete(inp.medias)
                /\ Complete(inp.medias) = {} =>
                      /\ out'.status = "threw"
                      /\ last'.http = 500 /\ last'.status = "error"
                      /\ req'[s].pc = "idle"
                      /\ store' = store /\ succ' = succ
          /\ store' # store =>
                /\ out.done /\ out.status = "redirect"
                /\ out.pick \in Complete(inp.medias)
      ]_vars

\* C27 witness: the upstream lists a webm with picture and sound and an mp4
\* without sound; after one recorded download of another kind, a video request
\* has been answered with the error and every counter is as it was
C27_Witness ==
    /\ inp.fn = "downloadVideo" /\ inp.answer = "ok" /\ Len(inp.medias) = 2
    /\ inp.medias[1].extension = "webm"
    /\ inp.medias[2].extension = "mp4" /\ ~inp.medias[2].audioAvailable
    /\ out.done /\ out.status = "threw"
    /\ last.http = 500 /\ last.code = "No MP4 download option found"
    /\ \E k \in Keys : k.kind = "audio" /\ store[k] = 1
    /\ \A k \in Keys : k.kind = "video" => store[k] = NoRow

-----------------------------------------------------------------------------
\* Platform detection. A string is the sequence of its characters, so that
\* String.prototype.includes and the regular expressions are computed on
\* the characters themselves.

\* the domain literals the detectors look for
music_youtube_com ==
    <<"m", "u", "s", "i", "c", ".", "y", "o", "u", "t", "u", "b", "e", ".", "c", "o", "m">>
youtube_com ==
    <<"y", "o", "u", "t", "u", "b", "e", ".", "c", "o", "m">>
youtu_be ==
    <<"y", "o", "u", "t", "u", ".", "b", "e">>
vm_tiktok_com ==
    <<"v", "m", ".", "t", "i", "k", "t", "o", "k", ".", "c", "o", "m">>
tiktok_com ==
    <<"t", "i", "k", "t", "o", "k", ".", "c", "o", "m">>
instagram_com ==
    <<"i", "n", "s", "t", "a", "g", "r", "a", "m", ".", "c", "o", "m">>
instagr_am ==
    <<"i", "n", "s", "t", "a", "g", "r", ".", "a", "m">>
facebook_com ==
    <<"f", "a", "c", "e", "b", "o", "o", "k", ".", "c", "o", "m">>
fb_watch ==
    <<"f", "b", ".", "w", "a", "t", "c", "h">>
twitter_com ==
    <<"t", "w", "i", "t", "t", "e", "r", ".", "c", "o", "m">>
x_com ==
    <<"x", ".", "c", "o", "m">>

\* further pieces URLs are built from: sub-domain prefixes, a domain typed
\* with capitals, a foreign domain, path pieces and a video id
part_music ==
    <<"m", "u", "s", "i", "c", ".">>
part_vm ==
    <<"v", "m", ".">>
part_TikTok_com ==
    <<"T", "i", "k", "T", "o", "k", ".", "c", "o", "m">>
part_example_org ==
    <<"e", "x", "a", "m", "p", "l", "e", ".", "o", "r", "g">>
part_watch ==
    <<"/", "w", "a", "t", "c", "h", "?", "v", "=">>
part_shorts ==
    <<"/", "s", "h", "o", "r", "t", "s", "/">>
part_slash ==
    <<"/">>
part_id ==
    <<"a", "B", "3">>

\* the most pieces a studied URL is built from
MaxUrlParts == 3

UrlParts ==
    {part_music, part_vm, youtube_com, youtu_be, tiktok_com, part_TikTok_com,
     instagram_com, instagr_am, facebook_com, fb_watch, twitter_com, x_com,
     part_example_org, part_watch, part_shorts, part_slash, part_id}

RECURSIVE Concat(_)
Concat(ps) == IF ps = <<>> THEN <<>> ELSE ps[1] \o Concat(Tail(ps))

\* the strings made of at most n of the given pieces
UrlsOf(parts, n) == {Concat(ps) : ps \in SeqsUpTo(parts, n)}

\* url.includes(sub)
includes(url, sub) ==
    \E i \in 1..(Len(url) - Len(sub) + 1) :
        SubSeq(url, i, i + Len(sub) - 1) = sub

\* a detector that takes every URL it does not know for a TikTok one
detectPlatformDispatchDefault(url) ==
    IF includes(url, instagram_com) \/ includes(url, instagr_am)
    THEN "instagram"
    ELSE IF includes(url, youtube_com) \/ includes(url, youtu_be)
    THEN "youtube"
    ELSE "tiktok"

\* detectPlatform of the platform-dispatching handler
detectPlatformDispatch(url) ==
    IF includes(url, instagram_com) \/ includes(url, instagr_am)
    THEN "instagram"
    ELSE IF includes(url, tiktok_com) \/ includes(url, vm_tiktok_com)
    THEN "tiktok"
    ELSE IF includes(url, youtube_com) \/ includes(url, youtu_be)
    THEN "youtube"
    ELSE "unknown"

\* detectPlatform of the rate-limited handler
detectPlatform(url) ==
    IF includes(url, youtube_com) \/ includes(url, youtu_be) THEN "youtube"
    ELSE IF includes(url, tiktok_com) THEN "tiktok"
    ELSE IF includes(url, instagram_com) THEN "instagram"
    ELSE IF includes(url, facebook_com) \/ includes(url, fb_watch)
    THEN "facebook"
    ELSE IF includes(url, twitter_com) \/ includes(url, x_com)
    THEN "twitter"
    ELSE IF includes(url, music_youtube_com) THEN "youtube-music"
    ELSE "other"

\* detectPlatform of the page
detectPlatformPage(url) ==
    IF includes(url, tiktok_com) \/ includes(url, vm_tiktok_com)
    THEN "tiktok"
    ELSE IF includes(url, instagram_com) THEN "instagram"
    ELSE IF includes(url, facebook_com) \/ includes(url, fb_watch)
    THEN "facebook"
    ELSE IF includes(url, music_youtube_com) THEN "youtube_music"
    ELSE IF includes(url, youtube_com) \/ includes(url, youtu_be)
    THEN "youtube"
    ELSE "unknown"

Detectors == {"dispatch", "ratelimited", "page"}

Detect(which, url) ==
    CASE which = "dispatch" -> detectPlatformDispatch(url)
      [] which = "ratelimited" -> detectPlatform(url)
      [] which = "page" -> detectPlatformPage(url)

Tagged(tag) == [done |-> TRUE, tag |-> tag]

\* one call of each detector
DetectDispatch ==
    /\ inp.fn = "detectPlatform" /\ inp.which = "dispatch" /\ ~out.done
    /\ out' = Tagged(detectPlatformDispatch(inp.url))
    /\ UNCHANGED <<inp, hvars, avars>>

DetectRateLimited ==
    /\ inp.fn = "detectPlatform" /\ inp.which = "ratelimited" /\ ~out.done
    /\ out' = Tagged(detectPlatform(inp.url))
    /\ UNCHANGED <<inp, hvars, avars>>

DetectPage ==
    /\ inp.fn = "detectPlatform" /\ inp.which = "page" /\ ~out.done
    /\ out' = Tagged(detectPlatformPage(inp.url))
    /\ UNCHANGED <<inp, hvars, avars>>

InitDetect ==
    /\ InitStore({FALSE}) /\ InitRest /\ InitAudio("idle")
    /\ inp \in [fn : {"detectPlatform"}, which : Detectors, url : UrlsOf(UrlParts, MaxUrlParts)]
    /\ out = NoOut

NextDetect == DetectDispatch \/ DetectRateLimited \/ DetectPage

SpecDetect == InitDetect /\ [][NextDetect]_vars

\* each detector's table as the claim reads it: its entries in the order of
\* the source lines, each with the domains it looks for and its tag
Entry(domains, tag) == [domains |-> domains, tag |-> tag]

DomainTable(which) ==
    CASE which = "dispatch" ->
            << Entry({instagram_com, instagr_am}, "instagram"),
               Entry({tiktok_com, vm_tiktok_com}, "tiktok"),
               Entry({youtube_com, youtu_be}, "youtube") >>
      [] which = "ratelimited" ->
            << Entry({youtube_com, youtu_be}, "youtube"),
               Entry({tiktok_com}, "tiktok"),
               Entry({instagram_com}, "instagram"),
               Entry({facebook_com, fb_watch}, "facebook"),
               Entry({twitter_com, x_com}, "twitter"),
               Entry({music_youtube_com}, "youtube-music") >>
      [] which = "page" ->
            << Entry({tiktok_com, vm_tiktok_com}, "tiktok"),
               Entry({instagram_com}, "instagram"),
               Entry({facebook_com, fb_watch}, "facebook"),
               Entry({music_youtube_com}, "youtube_music"),
               Entry({youtube_com, youtu_be}, "youtube") >>

UnknownTag(which) == IF which = "ratelimited" THEN "other" ELSE "unknown"

Matches(e, url) == \E d \in e.domains : includes(url, d)

FirstMatch(which, url) ==
    LET table == DomainTable(which)
        hits == {i \in DOMAIN table : Matches(table[i], url)}
    IN  IF hits = {} THEN UnknownTag(which)
        ELSE table[CHOOSE i \in hits : \A j \in hits : i <= j].tag

\* the URL names the domain d and no other: every table domain it contains
\* is part of d itself
NamesOnly(which, url, d) ==
    LET table == DomainTable(which)
    IN  /\ includes(url, d)
        /\ \A i \in DOMAIN table : \A d2 \in table[i].domains :
              includes(url, d2) => includes(d, d2)

\* C17: each detector returns the tag of the first entry of its table that
\* the URL contains, its unknown tag when the URL contains none; and every
\* domain of the table yields the tag of its own entry: a URL naming
\* music.youtube.com is tagged YouTube Music, not YouTube, by every detector
\* whose table lists it.
C17_OwnTagForEveryDomain ==
    (inp.fn = "detectPlatform" /\ out.done) =>
        /\ out.tag = FirstMatch(inp.which, inp.url)
        /\ \A i \in DOMAIN DomainTable(inp.which) :
              \A d \in DomainTable(inp.which)[i].domains :
                 NamesOnly(inp.which, inp.url, d) =>
                    out.tag = DomainTable(inp.which)[i].tag

\* String.prototype.toLowerCase, on the characters URLs are built from
toLowerCase(url) ==
    [i \in DOMAIN url |->
        CASE url[i] = "T" -> "t"
          [] url[i] = "B" -> "b"
          [] OTHER -> url[i]]

\* C18: detection does not depend on letter case: a URL and its lower-cased
\* form (TikTok.com and tiktok.com) get the same tag from every detector.
C18_CaseInsensitive ==
    (inp.fn = "detectPlatform" /\ out.done) =>
        out.tag = Detect(inp.which, toLowerCase(inp.url))

-----------------------------------------------------------------------------
\* The other revisions of POST /api/download: the platform-dispatching
\* handler, the Cobalt proxy and the all-in-one handler. One deployment runs
\* one revision; a request to it is one call.

Variants == {"dispatch", "cobalt", "ratelimited", "allinone"}

\* what the upstream does with the request: fetch rejects; the answer's body
\* is not JSON; the body is the JSON value null; the body is a JSON object
Answers == {"unreachable", "notjson", "null", "json"}

\* a || b on strings
Or(a, b) == IF Truthy(a) THEN a ELSE b

\* a file name built from a template: `${platform}_video.mp4`
Filename(stem, rest) == <<stem, rest>>

\* the body of a response, and the response: NextResponse.json(body, {status})
Body(status, url, filename, picker, error, debug) ==
    [status |-> status, url |-> url, filename |-> filename,
     picker |-> picker, error |-> error, debug |-> debug]

ErrorBody(code) == Body("error", None, Filename("", ""), <<>>, code, FALSE)

\* requests counts the upstream requests the call issued
Sent(http, body, requests) ==
    [done |-> TRUE, http |-> http, body |-> body, requests |-> requests,
     escaped |-> FALSE]

\* an exception on its way out of the try block
Throw(message, requests) ==
    [done |-> FALSE, http |-> 0, body |-> ErrorBody(message),
     requests |-> requests, escaped |-> TRUE]

\* the exception leaves the handler: no response is built
Rethrow(r, code) == [r EXCEPT !.done = TRUE]

\* catch (error): status error, a code made of the message, HTTP 500
Catch(r, code) ==
    IF r.escaped THEN Sent(500, ErrorBody(code), r.requests) ELSE r

\* the url counts as given even when it is the empty string
NotUrlUndefinedOnly(c) == c.body = "nourl"

\* !url: the body has no url, or an empty one
NotUrl(c) == c.body \in {"nourl", "emptyurl"}

\* ---- the platform-dispatching handler ----

\* [A-Za-z0-9_-], on the characters URLs are built from
IdChar(c) == c \notin {".", "/", ":", "?", "="}

\* the longest run of id characters starting at place i
RECURSIVE IdRun(_, _)
IdRun(url, i) ==
    IF i <= Len(url) /\ IdChar(url[i])
    THEN <<url[i]>> \o IdRun(url, i + 1)
    ELSE <<>>

\* url.match(/<prefix>([A-Za-z0-9_-]+)/): the group of the leftmost match,
\* the empty string when there is no match
MatchId(url, prefix) ==
    LET hits == {i \in 1..Len(url) :
                    /\ i + Len(prefix) <= Len(url)
                    /\ SubSeq(url, i, i + Len(prefix) - 1) = prefix
                    /\ IdChar(url[i + Len(prefix)])}
    IN  IF hits = {} THEN <<>>
        ELSE IdRun(url, (CHOOSE i \in hits : \A j \in hits : i <= j)
                            + Len(prefix))

\* extractYoutubeVideoId: the first of the three patterns that matches; the
\* empty string stands for null
extractYoutubeVideoId(url) ==
    LET watch == MatchId(url, youtube_com \o part_watch)
        short == MatchId(url, youtu_be \o part_slash)
        shorts == MatchId(url, youtube_com \o part_shorts)
    IN  IF watch # <<>> THEN watch
        ELSE IF short # <<>> THEN short
        ELSE shorts

\* the upstream payload the handler looks into
NoDataA ==
    [message |-> None, error |-> None,
     link |-> None, url |-> None, download_url |-> None,
     links |-> <<>>, formats |-> <<>>, media |-> <<>>,
     video |-> None, video_url |-> None, videoUrl |-> None,
     image |-> None, image_url |-> None, imageUrl |-> None]

\* mediaUrl, filename and medias as declared on lines 107-109
Extraction0 ==
    [mediaUrl |-> None, filename |-> Filename("download", ""), medias |-> <<>>]

\* Pattern 1, lines 113-118
Pattern1(data, platform, x) ==
    IF Truthy(data.link) \/ Truthy(data.url) \/ Truthy(data.download_url)
    THEN [x EXCEPT
            !.mediaUrl = Or(data.link, Or(data.url, data.download_url)),
            !.filename = IF platform = "youtube"
                         THEN Filename("youtube", "_video.mp4")
                         ELSE IF platform = "instagram"
                         THEN Filename("instagram", "_media")
                         ELSE Filename("tiktok", "_video.mp4")]
    ELSE x

\* Pattern 2, lines 121-134
Pattern2(data, platform, x) ==
    IF Len(data.links) > 0
    THEN LET medias == x.medias \o
                [i \in 1..Len(data.links) |->
                    [url |-> Or(data.links[i].link, data.links[i].url)]]
         IN  IF Truthy(medias[1].url)
             THEN [x EXCEPT !.medias = medias, !.mediaUrl = medias[1].url,
                            !.filename = Filename(platform, "_video.mp4")]
             ELSE [x EXCEPT !.medias = medias]
    ELSE x

\* Pattern 3, lines 137-158
Pattern3(data, platform, x) ==
    IF Len(data.formats) > 0
    THEN LET HasUrl(f) == Truthy(f.url)
             Both(f) == f.hasAudio /\ f.hasVideo
             pushed == SelectSeq(data.formats, HasUrl)
             medias == x.medias \o
                [i \in 1..Len(pushed) |-> [url |-> pushed[i].url]]
             videoWithAudio == SelectSeq(data.formats, Both)
         IN  IF Len(videoWithAudio) > 0
             THEN [x EXCEPT !.medias = medias,
                     !.mediaUrl = videoWithAudio[Len(videoWithAudio)].url,
                     !.filename = Filename("youtube", "_video.mp4")]
             ELSE IF Len(medias) > 0
             THEN [x EXCEPT !.medias = medias,
                     !.mediaUrl = medias[1].url,
                     !.filename = Filename("youtube", "_video.mp4")]
             ELSE [x EXCEPT !.medias = medias]
    ELSE x

\* Pattern 4, lines 161-173
Pattern4(data, platform, x) ==
    IF Len(data.media) > 0
    THEN LET medias == x.medias \o
                [i \in 1..Len(data.media) |->
                    [url |-> Or(data.media[i].url, data.media[i].link)]]
         IN  IF Truthy(medias[1].url)
             THEN [x EXCEPT !.medias = medias, !.mediaUrl = medias[1].url,
                            !.filename = Filename(platform, "_media")]
             ELSE [x EXCEPT !.medias = medias]
    ELSE x

\* Pattern 5, lines 176-184
Pattern5(data, platform, x) ==
    IF Truthy(x.mediaUrl) THEN x
    ELSE IF Truthy(data.video) \/ Truthy(data.video_url) \/ Truthy(data.videoUrl)
    THEN [x EXCEPT
            !.mediaUrl = Or(data.video, Or(data.video_url, data.videoUrl)),
            !.filename = Filename(platform, "_video.mp4")]
    ELSE IF Truthy(data.image) \/ Truthy(data.image_url) \/ Truthy(data.imageUrl)
    THEN [x EXCEPT
            !.mediaUrl = Or(data.image, Or(data.image_url, data.imageUrl)),
            !.filename = Filename(platform, "_image.jpg")]
    ELSE x

\* lines 106-184: the five patterns one after the other
ExtractDispatch(data, platform) ==
    Pattern5(data, platform,
        Pattern4(data, platform,
            Pattern3(data, platform,
                Pattern2(data, platform,
                    Pattern1(data, platform, Extraction0)))))

\* lines 186-208: the answer built from what was extracted
AnswerDispatch(x) ==
    IF Truthy(x.mediaUrl)
    THEN Sent(200, Body("redirect", x.mediaUrl, x.filename, <<>>, None, FALSE), 1)
    ELSE IF Len(x.medias) > 0
    THEN Sent(200, Body("picker", None, Filename("", ""), x.medias, None, FALSE), 1)
    ELSE Sent(200, [ErrorBody("Could not extract media URL from API response")
                      EXCEPT !.debug = TRUE], 1)

\* the try block, lines 27-208
TryDispatch(c) ==
    IF c.body = "unparseable" THEN Throw("request.json", 0)
    ELSE IF NotUrl(c)
    THEN Sent(400, ErrorBody("Missing URL"), 0)
    ELSE IF ~c.apiKey THEN Sent(500, ErrorBody("API key not configured"), 0)
    ELSE LET platform == detectPlatformDispatch(c.url)
         IN
         IF platform = "youtube" /\ extractYoutubeVideoId(c.url) = <<>>
         THEN Sent(400, ErrorBody("Invalid YouTube URL"), 0)
         ELSE IF platform = "unknown"
         THEN Sent(400, ErrorBody("Platform not supported"), 0)
         ELSE IF c.answer = "unreachable" THEN Throw("fetch", 1)
         ELSE IF c.answer = "notjson" THEN Throw("response.json", 1)
         ELSE IF c.answer = "null" THEN Throw("TypeError", 1)
         ELSE IF c.status \notin 200..299
         THEN Sent(c.status,
                   ErrorBody(Or(c.data.message, Or(c.data.error, "API Error"))),
                   1)
         ELSE AnswerDispatch(ExtractDispatch(c.data, platform))

PostDispatch(c) == Catch(TryDispatch(c), "Fetch failed")

\* ---- the Cobalt proxy ----

\* the try block, lines 224-262: the upstream's JSON is sent on as it is
TryCobalt(c) ==
    IF c.body = "unparseable" THEN Throw("request.json", 0)
    ELSE IF NotUrl(c)
    THEN Sent(400, ErrorBody("Missing URL"), 0)
    ELSE IF c.answer = "unreachable" THEN Throw("fetch", 1)
    ELSE IF c.status \notin 200..299
    THEN Sent(c.status, ErrorBody("API returned"), 1)
    ELSE IF c.answer = "notjson" THEN Throw("response.json", 1)
    ELSE IF c.answer = "null"
    THEN Sent(200, Body(None, None, Filename("", ""), <<>>, None, FALSE), 1)
    ELSE Sent(200, c.data, 1)

PostCobalt(c) == Catch(TryCobalt(c), "Fetch failed")

\* ---- the all-in-one handler ----

NoDataD ==
    [message |-> None, error |-> None, url |-> None, medias |-> <<>>,
     video |-> None, image |-> None]

\* videos.reduce(...), lines 732-734: the first entry of the highest quality,
\* a missing quality counting as 0
RECURSIVE BestVideo(_, _)
BestVideo(best, rest) ==
    IF rest = <<>> THEN best
    ELSE BestVideo(IF rest[1].quality > best.quality THEN rest[1] ELSE best,
                   Tail(rest))

\* lines 719-747
ExtractAllInOne(data) ==
    LET IsVideo(m) == m.type = "video"
        IsImage(m) == m.type = "image"
        videos == SelectSeq(data.medias, IsVideo)
        images == SelectSeq(data.medias, IsImage)
    IN  IF Truthy(data.url)
        THEN [mediaUrl |-> data.url, filename |-> Filename("download", "")]
        ELSE IF Len(data.medias) > 0
        THEN IF Len(videos) > 0
             THEN [mediaUrl |-> BestVideo(videos[1], Tail(videos)).url,
                   filename |-> Filename("video", ".mp4")]
             ELSE IF Len(images) > 0
             THEN [mediaUrl |-> images[1].url,
                   filename |-> Filename("image", ".jpg")]
             ELSE [mediaUrl |-> None, filename |-> Filename("download", "")]
        ELSE IF Truthy(data.video)
        THEN [mediaUrl |-> data.video, filename |-> Filename("video", ".mp4")]
        ELSE IF Truthy(data.image)
        THEN [mediaUrl |-> data.image, filename |-> Filename("image", ".jpg")]
        ELSE [mediaUrl |-> None, filename |-> Filename("download", "")]

\* lines 749-774
AnswerAllInOne(data, x) ==
    IF Truthy(x.mediaUrl)
    THEN Sent(200, Body("redirect", x.mediaUrl, x.filename, <<>>, None, FALSE), 1)
    ELSE IF Len(data.medias) > 0
    THEN Sent(200, Body("picker", None, Filename("", ""),
                        [i \in 1..Len(data.medias) |->
                            [url |-> data.medias[i].url]],
                        None, FALSE), 1)
    ELSE Sent(200, [ErrorBody("Could not extract media URL")
                      EXCEPT !.debug = TRUE], 1)

\* the try block, lines 674-774
TryAllInOne(c) ==
    IF c.body = "unparseable" THEN Throw("request.json", 0)
    ELSE IF NotUrl(c)
    THEN Sent(400, ErrorBody("Missing URL"), 0)
    ELSE IF ~c.apiKey THEN Sent(500, ErrorBody("API key not configured"), 0)
    ELSE IF c.answer = "unreachable" THEN Throw("fetch", 1)
    ELSE IF c.answer = "notjson" THEN Throw("response.json", 1)
    ELSE IF c.answer = "null" THEN Throw("TypeError", 1)
    ELSE IF c.status \notin 200..299 \/ Truthy(c.data.error)
    THEN Sent(c.status,
              ErrorBody(Or(c.data.message, Or(c.data.error, "Download failed"))),
              1)
    ELSE AnswerAllInOne(c.data, ExtractAllInOne(c.data))

PostAllInOne(c) == Catch(TryAllInOne(c), "Fetch failed")

\* ---- the requests studied ----

\* HTTP statuses the upstream answers with
UpstreamStatuses == {200, 404, 429, 503}

NoData(variant) ==
    CASE variant = "dispatch" -> NoDataA
      [] variant = "allinone" -> NoDataD
      [] OTHER -> Body(None, None, Filename("", ""), <<>>, None, FALSE)

\* a well-formed request the upstream answers with an empty JSON object
BaseCall(variant) ==
    [fn |-> "POST", variant |-> variant, body |-> "url",
     url |-> tiktok_com \o part_slash \o part_id, apiKey |-> TRUE,
     answer |-> "json", status |-> 200, data |-> NoData(variant)]

\* requests that fail before the upstream is asked
EarlyCalls(variant) ==
    {[BaseCall(variant) EXCEPT !.body = b, !.apiKey = k] :
        b \in Bodies, k \in BOOLEAN}

\* upstream failures: each answer kind under each status, with and without
\* message and error fields
FailingCalls(variant, urls) ==
    {[BaseCall(variant) EXCEPT !.url = u, !.answer = a, !.status = s,
        !.data = [NoData(variant) EXCEPT !.message = m, !.error = e]] :
        u \in urls, a \in Answers, s \in UpstreamStatuses,
        m \in {None, "message"}, e \in {None, "error"}}

\* one URL of each platform the dispatching handler serves
PlatformUrls ==
    {instagram_com \o part_slash \o part_id,
     tiktok_com \o part_slash \o part_id,
     youtube_com \o part_watch \o part_id}

Link(link, url) == [link |-> link, url |-> url]
Format(url, hasAudio, hasVideo) ==
    [url |-> url, hasAudio |-> hasAudio, hasVideo |-> hasVideo]

PayloadsA ==
    {[NoDataA EXCEPT !.link = d[1], !.url = d[2], !.download_url = d[3],
                     !.links = l, !.formats = f, !.media = m,
                     !.video = v[1], !.image = v[2]] :
        d \in {<<None, None, None>>, <<"link", None, None>>,
               <<None, "url", None>>, <<None, None, "download_url">>,
               <<"link", "url", "download_url">>},
        l \in {<<>>, <<Link(None, None)>>, <<Link("links[0].link", None)>>,
               <<Link(None, "links[0].url"), Link("links[1].link", None)>>},
        f \in {<<>>, <<Format("formats[0]", TRUE, TRUE)>>,
               <<Format("formats[0]", FALSE, TRUE)>>,
               <<Format(None, TRUE, TRUE)>>,
               <<Format("formats[0]", FALSE, TRUE),
                 Format("formats[1]", TRUE, TRUE)>>,
               <<Format("formats[0]", TRUE, TRUE),
                 Format("formats[1]", TRUE, TRUE)>>},
        m \in {<<>>, <<Link(None, None)>>, <<Link(None, "media[0].url")>>},
        v \in {<<None, None>>, <<"video", None>>, <<None, "image">>,
               <<"video", "image">>}}

\* the pieces the URLs sent to the dispatching handler are built from
RouteUrlParts ==
    {youtube_com, youtu_be, tiktok_com, part_TikTok_com, instagram_com,
     instagr_am, part_example_org, part_watch, part_shorts, part_slash,
     part_id}

\* the most pieces of such a URL
MaxRouteUrlParts == 3

DispatchCalls(n) ==
    EarlyCalls("dispatch")
    \cup {[BaseCall("dispatch") EXCEPT !.url = u] :
            u \in UrlsOf(RouteUrlParts, n)}
    \cup FailingCalls("dispatch", PlatformUrls)
    \cup {[BaseCall("dispatch") EXCEPT !.url = u, !.data = d] :
            u \in PlatformUrls, d \in PayloadsA}

\* answers of the Cobalt upstream: any combination of the fields
PayloadsB ==
    {Body(s, u, Filename("", ""), p, e, FALSE) :
        s \in {None, "tunnel", "redirect", "picker", "error"},
        u \in {None, "url"},
        p \in {<<>>, <<[url |-> "picker[0]"]>>},
        e \in {None, "error"}}

CobaltCalls ==
    EarlyCalls("cobalt")
    \cup {[BaseCall("cobalt") EXCEPT !.answer = a, !.status = s, !.data = d] :
            a \in Answers, s \in UpstreamStatuses, d \in PayloadsB}

\* the longest medias list of an all-in-one payload
MaxPayloadMedias == 2

MediasD ==
    [type : {"video"}, quality : {0, 360, 720}, url : {None, "m1", "m2"}]
    \cup [type : {"image"}, quality : {0}, url : {None, "m1", "m2"}]
    \cup [type : {"other"}, quality : {0}, url : {None, "m1"}]

PayloadsD(n) ==
    {[NoDataD EXCEPT !.url = u, !.medias = ms, !.video = v, !.image = i] :
        u \in {None, "url"}, ms \in SeqsUpTo(MediasD, n),
        v \in {None, "video"}, i \in {None, "image"}}

AllInOneCalls(n) ==
    EarlyCalls("allinone")
    \cup FailingCalls("allinone", {tiktok_com \o part_slash \o part_id})
    \cup {[BaseCall("allinone") EXCEPT !.data = d] : d \in PayloadsD(n)}

\* the rate-limited handler receives requests with one kind of body
RateLimitedCalls == EarlyCalls("ratelimited")

\* the most requests the rate-limited handler receives here
MaxRouteRequests == 2

\* one request to each revision
CallDispatch ==
    /\ inp.fn = "POST" /\ inp.variant = "dispatch" /\ ~out.done
    /\ out' = PostDispatch(inp)
    /\ UNCHANGED <<inp, hvars, avars>>

CallCobalt ==
    /\ inp.fn = "POST" /\ inp.variant = "cobalt" /\ ~out.done
    /\ out' = PostCobalt(inp)
    /\ UNCHANGED <<inp, hvars, avars>>

CallAllInOne ==
    /\ inp.fn = "POST" /\ inp.variant = "allinone" /\ ~out.done
    /\ out' = PostAllInOne(inp)
    /\ UNCHANGED <<inp, hvars, avars>>

RateLimited == inp.fn = "POST" /\ inp.variant = "ratelimited"

RouteMidnight == RateLimited /\ Midnight
RouteReceive(s) ==
    RateLimited /\ ReceiveBody(s, MaxRouteRequests, {inp.body})
RouteCheckRateLimit(s) == RateLimited /\ CheckRateLimit(s)
RouteBranch(s) == RateLimited /\ Branch(s)
RouteCallAdapter(s) == RateLimited /\ CallAdapter(s)
RouteIncrementUpsert(s) == RateLimited /\ IncrementUpsert(s)
RouteIncrementSelect(s) == RateLimited /\ IncrementSelect(s)
RouteIncrementUpdate(s) == RateLimited /\ IncrementUpdate(s)

InitRoutes ==
    /\ InitStore({FALSE}) /\ InitRest /\ InitAudio("idle")
    /\ inp \in DispatchCalls(MaxRouteUrlParts) \cup CobaltCalls
                \cup AllInOneCalls(MaxPayloadMedias) \cup RateLimitedCalls
    /\ apiKey = inp.apiKey
    /\ out = NoOut

NextRoutes ==
    \/ CallDispatch
    \/ CallCobalt
    \/ CallAllInOne
    \/ RouteMidnight
    \/ \E s \in Slots : RouteReceive(s)
    \/ \E s \in Slots : RouteCheckRateLimit(s)
    \/ \E s \in Slots : RouteBranch(s)
    \/ \E s \in Slots : RouteCallAdapter(s)
    \/ \E s \in Slots : RouteIncrementUpsert(s)
    \/ \E s \in Slots : RouteIncrementSelect(s)
    \/ \E s \in Slots : RouteIncrementUpdate(s)

SpecRoutes == InitRoutes /\ [][NextRoutes]_vars

\* the single-call revisions have answered
Answered == inp.fn = "POST" /\ out.done

\* how many of url set, picker non-empty, error set hold of a body
Outcomes(b) ==
    (IF Truthy(b.url) THEN 1 ELSE 0)
    + (IF Len(b.picker) > 0 THEN 1 ELSE 0)
    + (IF Truthy(b.error) THEN 1 ELSE 0)

\* C12: every response body a download handler sends, whatever the upstream
\* answered, has exactly one of: a url (redirect), a non-empty picker list
\* (picker), an error (error).
C12_ExactlyOneOutcome ==
    Answered => Outcomes(out.body) = 1

\* the payload with only the fields of one recognised shape left
OnlyShapeA(data, k) ==
    CASE k = 1 -> [NoDataA EXCEPT !.link = data.link, !.url = data.url,
                                  !.download_url = data.download_url]
      [] k = 2 -> [NoDataA EXCEPT !.links = data.links]
      [] k = 3 -> [NoDataA EXCEPT !.formats = data.formats]
      [] k = 4 -> [NoDataA EXCEPT !.media = data.media]
      [] k = 5 -> [NoDataA EXCEPT !.video = data.video,
                                  !.video_url = data.video_url,
                                  !.videoUrl = data.videoUrl,
                                  !.image = data.image,
                                  !.image_url = data.image_url,
                                  !.imageUrl = data.imageUrl]

OnlyShapeD(data, k) ==
    CASE k = 1 -> [NoDataD EXCEPT !.url = data.url]
      [] k = 2 -> [NoDataD EXCEPT !.medias = data.medias]
      [] k = 3 -> [NoDataD EXCEPT !.video = data.video]
      [] k = 4 -> [NoDataD EXCEPT !.image = data.image]

\* what shape k of the payload gives when it is the only one present
ShapeGives(c, k) ==
    IF c.variant = "dispatch"
    THEN LET x == ExtractDispatch(OnlyShapeA(c.data, k),
                                  detectPlatformDispatch(c.url))
         IN  [mediaUrl |-> x.mediaUrl, filename |-> x.filename]
    ELSE ExtractAllInOne(OnlyShapeD(c.data, k))

Shapes(c) == IF c.variant = "dispatch" THEN 1..5 ELSE 1..4

\* the recognised shapes of the payload that give a media URL
Giving(c) == {k \in Shapes(c) : Truthy(ShapeGives(c, k).mediaUrl)}

\* C13: in the handlers that parse the payload heuristically, when several
\* recognised shapes of the payload give a media URL, the URL and file name
\* of a redirect answer are those of the first such shape in priority order
\* (direct link, links[], formats[], media[], video/image fields; url,
\* medias[], video, image): a later shape never overrides an earlier one.
C13_FirstShapeWins ==
    (Answered /\ inp.variant \in {"dispatch", "allinone"}
        /\ out.body.status = "redirect" /\ Giving(inp) # {}) =>
        LET first == CHOOSE k \in Giving(inp) : \A j \in Giving(inp) : k <= j
        IN  /\ out.body.url = ShapeGives(inp, first).mediaUrl
            /\ out.body.filename = ShapeGives(inp, first).filename

\* C14: every response whose body has status error is sent with HTTP 400,
\* 429 or 500, in every revision of the handler: also when the upstream
\* answered successfully but no media URL could be extracted, and when the
\* upstream's own non-success status is passed on.
C14_ErrorStatusCodes ==
    /\ (Answered /\ out.body.status = "error") => out.http \in {400, 429, 500}
    /\ last.status = "error" => last.http \in {400, 429, 500}

\* C15: a request whose body has no url, or an empty one, is answered with
\* HTTP 400 and an error body, and nothing else happens: no upstream request
\* by the single-call revisions; in the rate-limited revision no request
\* enters the rate-limit check, the store is not written and no adapter runs.
C15_MissingUrlFirst ==
    /\ []((inp.fn = "POST" /\ inp.body \in {"nourl", "emptyurl"}) =>
            /\ out.done =>
                  /\ out.http = 400
                  /\ out.body.status = "error" /\ Truthy(out.body.error)
                  /\ Outcomes(out.body) = 1
                  /\ out.requests = 0
            /\ inp.variant = "ratelimited" =>
                  /\ \A s \in Slots : req[s] = IdleReq
                  /\ \A k \in Keys : store[k] = NoRow /\ succ[k] = 0)
    /\ [][(RateLimited /\ inp.body \in {"nourl", "emptyurl"}
             /\ started' # started) =>
            /\ last'.http = 400 /\ last'.status = "error"
            /\ last'.code = "Missing URL"]_vars

\* C15 witness: the all-in-one revision, deployed without an API key, has
\* answered a request whose url is the empty string with 400
C15_Witness ==
    /\ Answered /\ inp.variant = "allinone" /\ inp.body = "emptyurl"
    /\ ~inp.apiKey
    /\ out.http = 400 /\ out.body.error = "Missing URL" /\ out.requests = 0

\* the URL names none of the domains the dispatching handler serves
UnknownPlatform(url) ==
    \A d \in {instagram_com, instagr_am, tiktok_com, youtube_com, youtu_be} :
        ~includes(url, d)

\* a YouTube URL in which none of the three id patterns is followed by an
\* id character
YoutubeWithoutId(url) ==
    /\ \A d \in {instagram_com, instagr_am, tiktok_com} : ~includes(url, d)
    /\ \E d \in {youtube_com, youtu_be} : includes(url, d)
    /\ \A prefix \in {youtube_com \o part_watch, youtu_be \o part_slash,
                      youtube_com \o part_shorts} :
          MatchId(url, prefix) = <<>>

\* C16: the platform-dispatching handler, configured with its API key,
\* answers a URL of no known platform, and a YouTube URL from which no video
\* id can be extracted, with HTTP 400 and an error body, and sends no
\* upstream request.
C16_UnsupportedUrlRejected ==
    (Answered /\ inp.variant = "dispatch" /\ inp.body = "url" /\ inp.apiKey
        /\ (UnknownPlatform(inp.url) \/ YoutubeWithoutId(inp.url))) =>
        /\ out.http = 400
        /\ out.body.status = "error" /\ Truthy(out.body.error)
        /\ out.requests = 0

\* C16 witness: youtube.com/watch?v= with nothing behind it is refused as an
\* invalid YouTube URL
C16_Witness ==
    /\ Answered /\ inp.variant = "dispatch" /\ inp.body = "url" /\ inp.apiKey
    /\ inp.url = youtube_com \o part_watch
    /\ out.http = 400 /\ out.body.error = "Invalid YouTube URL"
    /\ out.requests = 0

\* something failed inside the call: the body did not parse, the upstream
\* could not be reached, or its answer could not be read
FailedInside(c, o) ==
    \/ c.body = "unparseable"
    \/ /\ o.requests > 0
       /\ \/ c.answer = "unreachable"
          \/ c.answer \in {"notjson", "null"} /\ c.variant # "cobalt"
          \/ c.answer = "notjson" /\ c.variant = "cobalt"
                /\ c.status \in 200..299

\* C19: whatever fails inside a download handler (a body that does not
\* parse, an unreachable upstream, an adapter that throws, a polling
\* time-out), the handler answers with a JSON body of status error carrying
\* an error code; no exception leaves the handler, a response is always
\* produced.
C19_FailuresBecomeErrors ==
    /\ [](Answered =>
            /\ ~out.escaped
            /\ FailedInside(inp, out) =>
                  /\ out.http = 500
                  /\ out.body.status = "error" /\ Truthy(out.body.error)
                  /\ Outcomes(out.body) = 1)
    /\ [][(RateLimited /\ inp.body = "unparseable" /\ started' # started) =>
            /\ last'.http = 500 /\ last'.status = "error"
            /\ last'.code # "none"]_vars
    /\ [][\A s \in Slots :
            (req[s].pc = "adapter" /\ req'[s].pc = "idle") =>
                /\ last'.http = 500 /\ last'.status = "error"
                /\ last'.code # "none"]_vars

\* C19 witness: the upstream of the dispatching handler answered null, the
\* TypeError was caught and the request answered with 500 and an error
C19_Witness ==
    /\ Answered /\ inp.variant = "dispatch" /\ inp.answer = "null"
    /\ out.requests = 1 /\ ~out.escaped
    /\ out.http = 500 /\ out.body.status = "error"
    /\ out.body.error = "Fetch failed"

-----------------------------------------------------------------------------
\* POST /api/log-download

validPlatforms == {"youtube", "tiktok", "instagram", "facebook"}
validFormats == {"mp3", "mp4"}

\* the calls studied: the body, the two credentials of the store, and what
\* createClient and insert do
LogCalls ==
    [fn : {"log-download"}, body : {"unparseable"}, platform : {None},
     format : {None}, supabaseUrl : BOOLEAN, supabaseKey : BOOLEAN,
     createClient : {"ok"}, insert : {"ok"}]
    \cup
    [fn : {"log-download"}, body : {"json"},
     platform : validPlatforms \cup {None, "", "unknown", "youtube_music"},
     format : validFormats \cup {None, "webm"},
     supabaseUrl : BOOLEAN, supabaseKey : BOOLEAN,
     createClient : {"ok", "throw"}, insert : StoreOutcomes]

\* NextResponse.json({success: true}) or NextResponse.json({error}, {status});
\* inserted tells whether a row reached naoload_logs
LogSent(http, success, error, inserted) ==
    [done |-> TRUE, http |-> http, success |-> success, error |-> error,
     inserted |-> inserted]

\* lines 5-45
PostLog(c) ==
    IF c.body = "unparseable"
    THEN LogSent(500, FALSE, "Internal server error", FALSE)
    ELSE IF ~Truthy(c.platform) \/ ~Truthy(c.format)
    THEN LogSent(400, FALSE, "Missing platform or format", FALSE)
    ELSE IF c.platform \notin validPlatforms \/ c.format \notin validFormats
    THEN LogSent(400, FALSE, "Invalid platform or format", FALSE)
    ELSE IF ~c.supabaseUrl \/ ~c.supabaseKey
    THEN LogSent(200, TRUE, None, FALSE)
    ELSE IF c.createClient = "throw"
    THEN LogSent(500, FALSE, "Internal server error", FALSE)
    ELSE IF c.insert = "throw"
    THEN LogSent(500, FALSE, "Internal server error", FALSE)
    ELSE LogSent(200, TRUE, None, c.insert = "ok")

\* one request to the endpoint
CallLog ==
    /\ inp.fn = "log-download" /\ ~out.done
    /\ out' = PostLog(inp)
    /\ UNCHANGED <<inp, hvars, avars>>

InitLog ==
    /\ InitStore({FALSE}) /\ InitRest /\ InitAudio("idle")
    /\ inp \in LogCalls /\ out = NoOut

NextLog == CallLog

SpecLog == InitLog /\ [][NextLog]_vars

\* C20: POST /log-download answers a well-formed log request with
\* {success: true}, whatever happens inside: the store not configured, the
\* insert returning an error, or an exception raised while the client is
\* created or the row inserted.
C20_AlwaysSuccess ==
    (inp.fn = "log-download" /\ out.done /\ inp.body = "json"
        /\ inp.platform \in validPlatforms /\ inp.format \in validFormats) =>
        (out.http = 200 /\ out.success)


-----------------------------------------------------------------------------
\* POST /api/admin/stats (src/src/app/api/admin/stats/route.ts), one call.
\* naoload_logs, newest row first, is a sequence of runs: n rows in a row of
\* one platform, all of them of today or all of them older.

\* runs in one table
MaxLogRuns == 3

\* .limit(50)
LOG_LIMIT == 50

\* the platforms log-download inserts, three of them
LoggedPlatforms == {"youtube", "tiktok", "instagram"}

LogRuns == [platform : LoggedPlatforms, today : BOOLEAN, n : {1, 49}]

\* the request body, the environment, and what the store answers to the
\* select and to the count
AuthCalls ==
    {[fn |-> "stats", body |-> "unparseable", password |-> None,
      adminPassword |-> "pw", supabaseUrl |-> "u", supabaseKey |-> "k",
      select |-> "ok", count |-> "ok", table |-> <<>>]}
    \cup
    [fn : {"stats"}, body : {"json"},
     password : {None, "", "pw", "other"},
     adminPassword : {None, "", "pw"},
     supabaseUrl : {None, "", "u"}, supabaseKey : {None, "k"},
     select : {"ok"}, count : {"ok"},
     table : {<<>>, <<[platform |-> "tiktok", today |-> TRUE, n |-> 1]>>}]

StatsCalls(n) ==
    AuthCalls \cup
    [fn : {"stats"}, body : {"json"}, password : {"pw"},
     adminPassword : {"pw"}, supabaseUrl : {"u"}, supabaseKey : {"k"},
     select : StoreOutcomes, count : StoreOutcomes,
     table : SeqsUpTo(LogRuns, n)]

\* the number of rows of a sequence of runs
RECURSIVE RowCount(_)
RowCount(runs) ==
    IF runs = <<>> THEN 0 ELSE runs[1].n + RowCount(Tail(runs))

\* .order('created_at', {ascending: false}).limit(k): the first k rows
RECURSIVE limit(_, _)
limit(runs, k) ==
    IF runs = <<>> \/ k = 0 THEN <<>>
    ELSE IF runs[1].n <= k
         THEN <<runs[1]>> \o limit(Tail(runs), k - runs[1].n)
         ELSE <<[runs[1] EXCEPT !.n = k]>>

\* allLogs.filter(log => new Date(log.created_at) >= today)
todayLogs(runs) == SelectSeq(runs, LAMBDA r : r.today)

\* byPlatform[log.platform] = (byPlatform[log.platform] || 0) + 1, for each
\* row of a run; the histogram is the sequence of its entries <<key, count>>
\* in the order the keys were created, which is the order of Object.entries
CountRun(h, run) ==
    IF \E i \in DOMAIN h : h[i][1] = run.platform
    THEN [i \in DOMAIN h |->
            IF h[i][1] = run.platform THEN <<h[i][1], h[i][2] + run.n>>
            ELSE h[i]]
    ELSE Append(h, <<run.platform, run.n>>)

RECURSIVE byPlatform(_)
byPlatform(runs) ==
    IF runs = <<>> THEN <<>>
    ELSE CountRun(byPlatform(SubSeq(runs, 1, Len(runs) - 1)), runs[Len(runs)])

\* a comparator that puts the smaller count first
CompareCountsAscending(a, b) == a[2] - b[2]

\* (a, b) => b[1] - a[1]
CompareCounts(a, b) == b[2] - a[2]

\* Array.prototype.sort, stable
RECURSIVE InsertEntry(_, _)
InsertEntry(s, x) ==
    IF s = <<>> THEN <<x>>
    ELSE LET y == s[Len(s)]
         IN  IF CompareCounts(y, x) > 0
             THEN Append(InsertEntry(SubSeq(s, 1, Len(s) - 1), x), y)
             ELSE Append(s, x)

RECURSIVE SortEntries(_)
SortEntries(h) ==
    IF h = <<>> THEN <<>>
    ELSE InsertEntry(SortEntries(SubSeq(h, 1, Len(h) - 1)), h[Len(h)])

\* Object.entries(byPlatform).sort(...)[0]?.[0] || 'N/A'
topPlatform(h) ==
    IF h = <<>> THEN "N/A"
    ELSE LET first == SortEntries(h)[1][1]
         IN  IF Truthy(first) THEN first ELSE "N/A"

\* a || b on numbers
OrNumber(a, b) == IF a # 0 THEN a ELSE b

\* NextResponse.json({error}, {status}); calls counts the requests sent to
\* the store
StatsError(http, error, calls) ==
    [done |-> TRUE, http |-> http, error |-> error, hasStats |-> FALSE,
     logs |-> <<>>, total |-> 0, today |-> 0, topPlatform |-> None,
     byPlatform |-> <<>>, calls |-> calls]

\* NextResponse.json({logs, stats: {total, today, topPlatform, byPlatform}})
StatsSent(logs, total, ofToday, top, h, calls) ==
    [done |-> TRUE, http |-> 200, error |-> None, hasStats |-> TRUE,
     logs |-> logs, total |-> total, today |-> ofToday, topPlatform |-> top,
     byPlatform |-> h, calls |-> calls]

\* the password test that lets every request through once a password is
\* configured
NotAuthorizedUnlessConfigured(c) == ~Truthy(c.adminPassword)

\* !adminPassword || password !== adminPassword
NotAuthorized(c) ==
    ~Truthy(c.adminPassword) \/ c.password # c.adminPassword

\* lines 4-71
PostStats(c) ==
    IF c.body = "unparseable"
    THEN StatsError(500, "Internal server error", 0)
    ELSE IF NotAuthorized(c)
    THEN StatsError(401, "Unauthorized", 0)
    ELSE IF ~Truthy(c.supabaseUrl) \/ ~Truthy(c.supabaseKey)
    THEN StatsSent(<<>>, 0, 0, "N/A", <<>>, 0)
    ELSE IF c.select = "throw"
    THEN StatsError(500, "Internal server error", 1)
    ELSE IF c.count = "throw"
    THEN StatsError(500, "Internal server error", 2)
    ELSE LET allLogs == IF c.select = "ok" THEN limit(c.table, LOG_LIMIT)
                        ELSE <<>>
             h == byPlatform(allLogs)
             count == IF c.count = "ok" THEN RowCount(c.table) ELSE 0
         IN  StatsSent(allLogs, OrNumber(count, RowCount(allLogs)),
                       RowCount(todayLogs(allLogs)), topPlatform(h), h, 2)

\* one request to the endpoint
CallStats ==
    /\ inp.fn = "stats" /\ ~out.done
    /\ out' = PostStats(inp)
    /\ UNCHANGED <<inp, hvars, avars>>

InitStats ==
    /\ InitStore({FALSE}) /\ InitRest /\ InitAudio("idle")
    /\ inp \in StatsCalls(MaxLogRuns) /\ out = NoOut

NextStats == CallStats

SpecStats == InitStats /\ [][NextStats]_vars

\* C22: POST /admin/stats answers with logs or stats only when the password
\* of the body equals a configured, non-empty ADMIN_PASSWORD; every other
\* body {password} is answered 401, also when no password is configured; an
\* authenticated request with the log store not configured gets empty logs
\* and zeroed stats, and no request is sent to the store.
C22_StatsNeedPassword ==
    (inp.fn = "stats" /\ out.done) =>
        LET match == /\ inp.adminPassword \notin {None, ""}
                     /\ inp.password = inp.adminPassword
            configured == /\ inp.supabaseUrl \notin {None, ""}
                          /\ inp.supabaseKey \notin {None, ""}
        IN /\ out.hasStats => (inp.body = "json" /\ match)
           /\ (inp.body = "json" /\ ~match) =>
                 /\ out.http = 401 /\ ~out.hasStats
                 /\ out.logs = <<>> /\ out.calls = 0
           /\ (inp.body = "json" /\ match /\ ~configured) =>
                 /\ out.http = 200 /\ out.hasStats
                 /\ out.logs = <<>> /\ out.total = 0 /\ out.today = 0
                 /\ out.topPlatform = "N/A" /\ out.byPlatform = <<>>
                 /\ out.calls = 0

\* C22 witness: no ADMIN_PASSWORD is configured, the body carries no password
\* either, the store is configured and holds rows; the answer is 401
C22_Witness ==
    /\ inp.fn = "stats" /\ out.done /\ inp.body = "json"
    /\ inp.adminPassword = None /\ inp.password = None
    /\ inp.supabaseUrl = "u" /\ inp.supabaseKey = "k"
    /\ inp.table # <<>>
    /\ out.http = 401 /\ ~out.hasStats

\* the count the histogram h holds for the platform p
CountIn(h, p) ==
    IF \E i \in DOMAIN h : h[i][1] = p
    THEN h[CHOOSE i \in DOMAIN h : h[i][1] = p][2]
    ELSE 0

\* the rows of the platform p among runs
RowsOf(runs, p) == RowCount(SelectSeq(runs, LAMBDA r : r.platform = p))

\* C23: in the stats of a request that fetched its logs, byPlatform counts
\* the fetched rows of each platform, so its counts sum to the number of
\* fetched rows, which is at most 50; topPlatform is the first key of
\* byPlatform whose count is maximal, and N/A exactly when no row was
\* fetched; today is at most the number of fetched rows.
C23_TopPlatform ==
    (inp.fn = "stats" /\ out.done /\ out.hasStats) =>
        LET h == out.byPlatform
            fetched == RowCount(out.logs)
        IN /\ fetched <= 50
           /\ fetched = (IF out.calls = 2 /\ inp.select = "ok"
                         THEN IF RowCount(inp.table) < 50
                              THEN RowCount(inp.table) ELSE 50
                         ELSE 0)
           /\ \A p \in LoggedPlatforms : CountIn(h, p) = RowsOf(out.logs, p)
           /\ \A i, j \in DOMAIN h : h[i][1] = h[j][1] => i = j
           /\ \A i \in DOMAIN h : h[i][1] \in LoggedPlatforms /\ h[i][2] > 0
           /\ RowCount([i \in DOMAIN h |-> [n |-> h[i][2]]]) = fetched
           /\ (out.topPlatform = "N/A") = (fetched = 0)
           /\ fetched > 0 =>
                 \E i \in DOMAIN h :
                    /\ out.topPlatform = h[i][1]
                    /\ \A j \in DOMAIN h : h[j][2] <= h[i][2]
                    /\ \A j \in 1 .. (i - 1) : h[j][2] < h[i][2]
           /\ out.today <= fetched

\* C23 witness: 49 tiktok rows, then 49 youtube rows, then an instagram row:
\* 50 rows are fetched, youtube is counted once and ties with nothing, tiktok
\* leads, and the instagram row is not fetched
C23_Witness ==
    /\ inp.fn = "stats" /\ out.done /\ out.hasStats /\ Len(inp.table) = 3
    /\ inp.table[1].platform = "tiktok" /\ inp.table[1].n = 49
    /\ inp.table[2].platform = "youtube" /\ inp.table[2].n = 49
    /\ inp.table[3].platform = "instagram"
    /\ out.topPlatform = "tiktok"
    /\ out.byPlatform = <<(<<"tiktok", 49>>), (<<"youtube", 1>>)>>
    /\ out.today <= 50


-----------------------------------------------------------------------------
\* The client-side cooldown of the page (src/unnamed/part_003, lines 21-55):
\* the clock of the browser advances and updateRateLimit is called; inp holds
\* Date.now() and the naoload_ratelimit item of localStorage, out what the
\* latest call saw and returned.

\* clock readings in one behaviour
MaxTicks == 8

\* now + 60000
COOLDOWN_MS == 60000

\* newCount >= 3, info.count >= 3
COOLDOWN_CALLS == 3

\* the clock moves in steps of half a cooldown
TickLength == COOLDOWN_MS \div 2

\* getRateLimitInfo with nothing stored, and the state the reset stores
NoRateLimitInfo == [count |-> 0, resetTime |-> 0]

\* info.count >= 3 && info.resetTime > now
InCooldown(info, now) ==
    info.count >= COOLDOWN_CALLS /\ info.resetTime > now

\* updateRateLimit: what it returns and what it leaves in localStorage
updateRateLimit(info, now) ==
    IF info.resetTime # 0 /\ now > info.resetTime
    THEN [accepted |-> TRUE, stored |-> NoRateLimitInfo]
    ELSE IF InCooldown(info, now)
    THEN [accepted |-> FALSE, stored |-> info]
    ELSE LET newCount == info.count + 1
             newResetTime == IF newCount >= COOLDOWN_CALLS
                             THEN now + COOLDOWN_MS ELSE info.resetTime
         IN  [accepted |-> TRUE,
              stored |-> [count |-> newCount, resetTime |-> newResetTime]]

\* Math.ceil((info.resetTime - Date.now()) / 1000), 0 when not positive
getCooldownRemaining(info, now) ==
    IF info.resetTime = 0 \/ info.resetTime - now <= 0 THEN 0
    ELSE (info.resetTime - now + 999) \div 1000

\* time passes
ClockAdvances ==
    /\ inp.fn = "updateRateLimit"
    /\ inp.now < MaxTicks * TickLength
    /\ inp' = [inp EXCEPT !.now = @ + TickLength]
    /\ UNCHANGED <<out, hvars, avars>>

\* one call of updateRateLimit
CallUpdateRateLimit ==
    /\ inp.fn = "updateRateLimit"
    /\ LET r == updateRateLimit(inp.stored, inp.now)
       IN /\ inp' = [inp EXCEPT !.stored = r.stored]
          /\ out' = [done |-> TRUE, accepted |-> r.accepted,
                     seen |-> inp.stored, at |-> inp.now,
                     remaining |-> getCooldownRemaining(r.stored, inp.now)]
    /\ UNCHANGED <<hvars, avars>>

InitCooldown ==
    /\ InitStore({FALSE}) /\ InitRest /\ InitAudio("idle")
    /\ inp = [fn |-> "updateRateLimit", now |-> TickLength,
              stored |-> NoRateLimitInfo]
    /\ out = NoOut

NextCooldown == ClockAdvances \/ CallUpdateRateLimit

SpecCooldown == InitCooldown /\ [][NextCooldown]_vars

\* C28: once the cooldown is armed (count >= 3 and a resetTime), every call
\* of updateRateLimit made before resetTime returns false and leaves the
\* stored {count, resetTime} as it is; a call made after resetTime stores
\* {0, 0} and is accepted; and no call is accepted on a stored count above 3.
C28_CooldownHolds ==
    [][(inp.fn = "updateRateLimit" /\ inp'.now = inp.now /\ out'.done) =>
          LET info == inp.stored
              armed == info.count >= 3 /\ info.resetTime # 0
          IN /\ (armed /\ inp.now < info.resetTime) =>
                   (~out'.accepted /\ inp'.stored = info)
             /\ (armed /\ inp.now > info.resetTime) =>
                   (out'.accepted /\ inp'.stored = [count |-> 0, resetTime |-> 0])
             /\ out'.accepted => info.count <= 3
      ]_vars


-----------------------------------------------------------------------------
\* handleDownload of the page (src/unnamed/part_003, lines 73-144), one click:
\* the URL typed, the cooldown shown, localStorage and the clock, what
\* /api/download answers, and what becomes of the request to /api/log-download
\* and of its insert into naoload_logs.

\* the most pieces of a typed URL
MaxPageUrlParts == 3

scheme_http ==
    <<"h", "t", "t", "p", ":", "/", "/">>
scheme_https ==
    <<"h", "t", "t", "p", "s", ":", "/", "/">>
www_dot ==
    <<"w", "w", "w", ".">>

PageUrlParts ==
    {part_music, youtube_com, tiktok_com, part_TikTok_com, part_example_org,
     part_slash, part_id}

\* URLs the regular expression accepts, one of them tagged youtube_music
\* and one tagged unknown by detectPlatform
AcceptedUrls ==
    {tiktok_com \o part_slash \o part_id,
     scheme_https \o www_dot \o youtube_com \o part_watch \o part_id,
     music_youtube_com \o part_slash \o part_id,
     part_TikTok_com \o part_slash \o part_id}

\* a row of naoload_logs
LogRow(platform, format) == [platform |-> platform, format |-> format]

ArmedInfo == [count |-> COOLDOWN_CALLS, resetTime |-> 3 * TickLength]

BaseClick ==
    [fn |-> "handleDownload", url |-> <<>>, cooldown |-> 0,
     stored |-> NoRateLimitInfo, now |-> TickLength,
     download |-> "ok", status |-> "redirect", picker |-> 0,
     log |-> "ok", logStore |-> TRUE, insert |-> "ok", table |-> <<>>]

PageCalls(n) ==
    {[BaseClick EXCEPT !.url = u, !.cooldown = c, !.stored = i,
                       !.status = s, !.picker = (IF s = "picker" THEN 2 ELSE 0)] :
        u \in UrlsOf(PageUrlParts, n), c \in {0, 5},
        i \in {NoRateLimitInfo, ArmedInfo}, s \in {"redirect", "picker"}}
    \cup
    {[BaseClick EXCEPT !.url = u, !.download = d[1], !.status = d[2],
                       !.picker = d[3], !.log = l, !.logStore = g,
                       !.insert = x, !.table = rows] :
        u \in AcceptedUrls,
        d \in {<<"throw", "none", 0>>, <<"ok", "error", 0>>,
               <<"ok", "redirect", 0>>, <<"ok", "tunnel", 0>>,
               <<"ok", "picker", 0>>, <<"ok", "picker", 1>>,
               <<"ok", "picker", 2>>, <<"ok", "stream", 0>>},
        l \in {"ok", "throw"}, g \in BOOLEAN, x \in StoreOutcomes,
        rows \in {<<>>, <<LogRow("tiktok", "mp4")>>}}

\* URL_REGEX.test(url): an optional scheme, an optional www., one of the
\* domains in any letter case, a slash and at least one more character
URL_REGEX(url) ==
    \E scheme \in {<<>>, scheme_http, scheme_https}, www \in {<<>>, www_dot},
       domain \in {tiktok_com, vm_tiktok_com, instagram_com, facebook_com,
                   fb_watch, youtube_com, youtu_be, music_youtube_com} :
        LET head == scheme \o www \o domain \o part_slash
        IN  /\ Len(url) > Len(head)
            /\ toLowerCase(SubSeq(url, 1, Len(head))) = head

\* what the click leaves behind: the error shown, whether a result is shown,
\* the requests sent to /api/download, the bodies sent to /api/log-download
\* and the rows of naoload_logs
Clicked(error, shown, downloads, logCalls, table) ==
    [done |-> TRUE, error |-> error, shown |-> shown,
     downloads |-> downloads, logCalls |-> logCalls, table |-> table]

\* lines 132-137: the first item of a picker answer is shown
PickerBranch(c) == Clicked(None, c.picker > 0, 1, <<>>, c.table)

\* lines 73-144
handleDownload(c) ==
    IF c.url = <<>> THEN Clicked("Please enter a URL", FALSE, 0, <<>>, c.table)
    ELSE IF ~URL_REGEX(c.url)
    THEN Clicked("Please enter a valid URL", FALSE, 0, <<>>, c.table)
    ELSE IF c.cooldown > 0
    THEN Clicked("Please wait", FALSE, 0, <<>>, c.table)
    ELSE IF ~updateRateLimit(c.stored, c.now).accepted
    THEN Clicked("Rate limit reached", FALSE, 0, <<>>, c.table)
    ELSE IF c.download = "throw"
    THEN Clicked("Network error", FALSE, 1, <<>>, c.table)
    ELSE IF c.status = "error"
    THEN Clicked("Download failed", FALSE, 1, <<>>, c.table)
    ELSE IF c.status \in {"tunnel", "redirect"}
    THEN LET body == LogRow(detectPlatformPage(c.url), "mp4")
             answer == PostLog([body |-> "json", platform |-> body.platform,
                                format |-> body.format,
                                supabaseUrl |-> c.logStore,
                                supabaseKey |-> c.logStore,
                                createClient |-> "ok", insert |-> c.insert])
         IN  IF c.log = "throw"
             THEN Clicked("Network error", TRUE, 1, <<body>>, c.table)
             ELSE Clicked(None, TRUE, 1, <<body>>,
                          IF answer.inserted THEN Append(c.table, body)
                          ELSE c.table)
    ELSE IF c.status = "picker" THEN PickerBranch(c)
    ELSE Clicked(None, FALSE, 1, <<>>, c.table)

\* one click on the download button
CallHandleDownload ==
    /\ inp.fn = "handleDownload" /\ ~out.done
    /\ out' = handleDownload(inp)
    /\ UNCHANGED <<inp, hvars, avars>>

InitPage ==
    /\ InitStore({FALSE}) /\ InitRest /\ InitAudio("idle")
    /\ inp \in PageCalls(MaxPageUrlParts) /\ out = NoOut

NextPage == CallHandleDownload

SpecPage == InitPage /\ [][NextPage]_vars

\* C21: every click that ends with a result shown to the user (the answer of
\* /api/download had status redirect, tunnel or picker) has sent exactly one
\* request to /api/log-download, carrying the platform detected from the URL;
\* and the rows naoload_logs held before the click are still there, unchanged
\* and in place, after it.
C21_EveryResultLogged ==
    (inp.fn = "handleDownload" /\ out.done) =>
        /\ out.shown =>
              /\ Len(out.logCalls) = 1
              /\ out.logCalls[1].platform = detectPlatformPage(inp.url)
        /\ Len(out.table) >= Len(inp.table)
        /\ SubSeq(out.table, 1, Len(inp.table)) = inp.table


-----------------------------------------------------------------------------
\* The Cobalt proxy (route.ts, lines 222-271) in a deployment that knows
\* several Cobalt instances, in their order of preference: the instance
\* NEXT_PUBLIC_COBALT_API_URL names, the built-in one behind it, and so on.
\* inp.instances holds what each of them would answer.

\* instances in one deployment
MaxInstances == 3

RedirectData == Body("redirect", "url", Filename("", ""), <<>>, None, FALSE)

\* an instance that cannot be reached, one that answers 503, one that answers
\* 200 with a body of no known status, one that answers a redirect, and one
\* that answers a tunnel
InstanceAnswers ==
    {[answer |-> "unreachable", status |-> 200, data |-> NoData("cobalt")],
     [answer |-> "json", status |-> 503, data |-> NoData("cobalt")],
     [answer |-> "json", status |-> 200, data |-> NoData("cobalt")],
     [answer |-> "json", status |-> 200, data |-> RedirectData],
     [answer |-> "json", status |-> 200,
      data |-> [RedirectData EXCEPT !.status = "tunnel"]]}

\* process.env.NEXT_PUBLIC_COBALT_API_URL || 'https://nsoyivss-naoload-api.hf.space':
\* the one instance the handler sends its request to
apiUrl(instances) == instances[1]

FallbackCalls(n) ==
    {[fn |-> "POST", variant |-> "cobalt", body |-> "url",
      url |-> tiktok_com \o part_slash \o part_id, apiKey |-> TRUE,
      answer |-> apiUrl(ins).answer, status |-> apiUrl(ins).status,
      data |-> apiUrl(ins).data, instances |-> ins] :
        ins \in SeqsUpTo(InstanceAnswers, n) \ {<<>>}}

InitFallback ==
    /\ InitStore({FALSE}) /\ InitRest /\ InitAudio("idle")
    /\ inp \in FallbackCalls(MaxInstances)
    /\ out = NoOut

NextFallback == CallCobalt

SpecFallback == InitFallback /\ [][NextFallback]_vars

\* the instance does not give a result: no answer, a non-2xx answer, or a
\* body whose status is none of redirect, tunnel, picker
InstanceFails(i) ==
    \/ i.answer = "unreachable"
    \/ i.status \notin 200..299
    \/ i.data.status \notin {"redirect", "tunnel", "picker"}

\* the error recorded for a failing instance
InstanceError(i) ==
    IF i.answer = "unreachable" THEN ErrorBody("Fetch failed")
    ELSE IF i.status \notin 200..299 THEN ErrorBody("API returned")
    ELSE i.data

\* C24: with N Cobalt instances of which the first N-1 fail and the N-th
\* answers a valid redirect, the handler answers with the N-th instance's
\* result after one request to each of the N instances; when all N fail, it
\* answers with the error recorded for the last one.
C24_FallbackReachesLast ==
    (inp.fn = "POST" /\ "instances" \in DOMAIN inp /\ out.done) =>
        LET ins == inp.instances
            N == Len(ins)
        IN /\ ((\A i \in 1 .. (N - 1) : InstanceFails(ins[i]))
                  /\ ~InstanceFails(ins[N]) /\ ins[N].data.status = "redirect")
                 => (out.body = ins[N].data /\ out.requests = N)
           /\ (\A i \in 1 .. N : InstanceFails(ins[i]))
                 => (out.body = InstanceError(ins[N]) /\ out.requests = N)

=============================================================================
